---- MODULE Spec2Model ----
(***************************************************************************)
(* A model of src-d/metadata-retrieval: the HTTP transport stack (retry    *)
(* interceptor over rate-limit interceptor over a base transport) and the  *)
(* top-level downloads that run inside one storage transaction.            *)
(*                                                                         *)
(* Time is kept relative to "now", in milliseconds: a deadline variable    *)
(* holds the time that is left until the deadline (0 when the deadline is  *)
(* not in the future), and the passing of d milliseconds subtracts d from  *)
(* every deadline.  The code only ever compares a deadline with            *)
(* time.Now() or sleeps for their difference, so nothing is lost.          *)
(***************************************************************************)
EXTENDS Integers, Sequences, FiniteSets, TLC

VARIABLES
    lockedUntil,     \* RateLimitTransport.lockedUntil, as time left from now
    mutex,           \* RateLimitTransport's sync.Mutex: Free or the caller holding it
    pc,              \* per caller: where its RoundTrip call stands
    ctxDone,         \* per caller: the request's context is cancelled
    timer,           \* per caller: time left of its sleep, backoff wait or in-flight request
    attempts,        \* per caller: how often retry ran the operation for this request
    numTries,        \* per caller: backOffTries.numTries
    currentInterval, \* per caller: ExponentialBackOff.CurrentInterval
    elapsed,         \* per caller: ExponentialBackOff.GetElapsedTime()
    lastOut,         \* per caller: what the base transport answered to the last attempt
    rlErr,           \* per caller: the error RateLimitTransport.RoundTrip returned last
    ret,             \* per caller: what retryTransport.RoundTrip returned
    hist,            \* observations the properties are stated on
    req,             \* per caller: the body of the request retryTransport.RoundTrip got
    dl,              \* the running DownloadRepository or DownloadOrganization call
    store,           \* the storer: its transaction and the rows of the database
    conn,            \* a downloadConnection call: its arguments, locals and what it did
    dp,              \* the DownloadersPool and the downloadParallel call that uses it
    cmd              \* the ExecuteBody call of the example command

tvars == <<lockedUntil, mutex, pc, ctxDone, timer, attempts, numTries,
           currentInterval, elapsed, lastOut, rlErr, ret, hist, req>>

dvars == <<dl, store, conn, dp, cmd>>

vars == <<tvars, dvars>>

-----------------------------------------------------------------------------
(* Bounds of the model *)

\* Latency of a slow answer of the server, in ms
SlowLatency == 100000

\* The goroutines that can send requests through one transport stack
Callers == {"first", "second"}

\* The goroutine of a client that sends its requests one after the other
Single == {"first"}

\* sync.Mutex, unlocked
Free == "free"

-----------------------------------------------------------------------------
(* Program constants *)

Second == 1000
maxRetries == 10
initialInterval == 10
maxInterval == 10000
multiplier == 6
\* backoff.NewExponentialBackOff() leaves MaxElapsedTime at the library's 15 minutes
MaxElapsedTime == 900000
defaultAbuseRetryAfter == 60000
StatusOK == 200
StatusUnauthorized == 401
StatusForbidden == 403
StatusServerError == 500

\* A header that is absent or that strconv.Atoi cannot parse
NoHeader == -1

Max(a, b) == IF a >= b THEN a ELSE b
Min(a, b) == IF a <= b THEN a ELSE b

-----------------------------------------------------------------------------
(* What the base transport can answer *)

Resp(status, remaining, reset, retryAfter, body) ==
    [err |-> "nil", status |-> status, remaining |-> remaining, reset |-> reset,
     retryAfter |-> retryAfter, body |-> body]

TransportErr(e) ==
    [err |-> e, status |-> 0, remaining |-> NoHeader, reset |-> NoHeader,
     retryAfter |-> NoHeader, body |-> "none"]

NoOut == TransportErr("none")

\* Answers of a server: reset is X-RateLimit-Reset minus now, in seconds,
\* retryAfter is Retry-After in seconds, body is what the body holds: "json"
\* a JSON document, "abuse" one whose message mentions abuse detection,
\* "invalid" no JSON, "abuse_text" no JSON but text that mentions abuse
OK200 == Resp(StatusOK, NoHeader, NoHeader, NoHeader, "json")

\* Answers with which a server fails, or refuses, a request
ErrorResponses ==
    { Resp(StatusUnauthorized, NoHeader, NoHeader, NoHeader, "json"),
      Resp(StatusUnauthorized, NoHeader, NoHeader, NoHeader, "invalid"),
      Resp(StatusForbidden, NoHeader, NoHeader, NoHeader, "json"),
      Resp(404, NoHeader, NoHeader, NoHeader, "json"),
      Resp(StatusServerError, NoHeader, NoHeader, NoHeader, "json"),
      Resp(502, NoHeader, NoHeader, NoHeader, "invalid") }

\* Answers that carry rate-limit or abuse information, and a 403 that
\* carries none
LimitResponses ==
    { Resp(StatusForbidden, NoHeader, NoHeader, NoHeader, "json"),
      Resp(StatusForbidden, 0, 0, NoHeader, "json"),
      Resp(StatusOK, 0, 0, NoHeader, "json"),
      Resp(StatusOK, 1, 0, NoHeader, "json"),
      Resp(StatusOK, 0, NoHeader, NoHeader, "json"),
      Resp(StatusUnauthorized, 0, 0, NoHeader, "json"),
      Resp(StatusForbidden, NoHeader, NoHeader, 1, "json"),
      Resp(StatusForbidden, 0, 0, 2, "json"),
      Resp(StatusForbidden, NoHeader, NoHeader, NoHeader, "abuse"),
      Resp(StatusForbidden, NoHeader, NoHeader, NoHeader, "abuse_text"),
      Resp(502, 0, 0, NoHeader, "json") }

\* What the underlying transport can return to the first caller when the
\* server misbehaves, and when it limits the client
OutcomesT == {OK200, TransportErr("network")} \cup ErrorResponses

OutcomesL == {OK200} \cup LimitResponses

LatenciesT == {0, SlowLatency}

LatenciesL == {0}

-----------------------------------------------------------------------------
(* RateLimitTransport: what it makes of a response *)

NoLimit == [err |-> "nil", when |-> 0]

\* readAPIErrorResponse: json.Unmarshal of the body; "invalid" and "abuse_text"
\* are bodies that are not JSON, the second one mentioning abuse detection
readAPIErrorResponse(o) ==
    IF o.body \in {"invalid", "abuse_text"} THEN "JSONError" ELSE "nil"

checkResponseUnauth(o) ==
    IF o.status = StatusUnauthorized
    THEN IF readAPIErrorResponse(o) # "nil"
         THEN readAPIErrorResponse(o)
         ELSE "ErrUnauthorized"
    ELSE "nil"

\* asErrRateLimit without the second added to the reset time
asErrRateLimit_NoExtraSecond(o) ==
    IF o.reset = NoHeader THEN NoLimit
    ELSE IF o.remaining = NoHeader THEN NoLimit
    ELSE IF o.remaining = 0
         THEN [err |-> "ErrRateLimit", when |-> o.reset * Second]
         ELSE NoLimit

asErrRateLimit(o) ==
    IF o.reset = NoHeader THEN NoLimit
    ELSE IF o.remaining = NoHeader THEN NoLimit
    ELSE IF o.remaining = 0
         THEN [err |-> "ErrRateLimit", when |-> (o.reset + 1) * Second]
         ELSE NoLimit

isAbuseRateLimit(o) == o.body = "abuse"

\* asErrAbuseRateLimit that knows an abuse answer by its header only
asErrAbuseRateLimit_HeaderOnly(o, defaultSleep) ==
    IF o.status # StatusForbidden THEN NoLimit
    ELSE IF o.retryAfter # NoHeader
         THEN [err |-> "ErrAbuseRateLimit", when |-> o.retryAfter * Second]
         ELSE NoLimit

\* asErrAbuseRateLimit that takes every 403 for an abuse answer
asErrAbuseRateLimit_Every403(o, defaultSleep) ==
    IF o.status # StatusForbidden THEN NoLimit
    ELSE IF o.retryAfter # NoHeader
         THEN [err |-> "ErrAbuseRateLimit", when |-> o.retryAfter * Second]
         ELSE [err |-> "ErrAbuseRateLimit", when |-> defaultSleep]

\* asErrAbuseRateLimit that waits the default sleep at least
asErrAbuseRateLimit_AtLeastDefault(o, defaultSleep) ==
    IF o.status # StatusForbidden THEN NoLimit
    ELSE IF o.retryAfter # NoHeader
         THEN [err |-> "ErrAbuseRateLimit", when |-> Max(o.retryAfter * Second, defaultSleep)]
         ELSE IF readAPIErrorResponse(o) = "nil" /\ isAbuseRateLimit(o)
              THEN [err |-> "ErrAbuseRateLimit", when |-> defaultSleep]
              ELSE NoLimit

asErrAbuseRateLimit(o, defaultSleep) ==
    IF o.status # StatusForbidden THEN NoLimit
    ELSE IF o.retryAfter # NoHeader
         THEN [err |-> "ErrAbuseRateLimit", when |-> o.retryAfter * Second]
         ELSE IF readAPIErrorResponse(o) = "nil" /\ isAbuseRateLimit(o)
              THEN [err |-> "ErrAbuseRateLimit", when |-> defaultSleep]
              ELSE NoLimit

checkResponseRateLimit(o, defaultAbuseSleep) ==
    IF asErrRateLimit(o).err # "nil"
    THEN asErrRateLimit(o)
    ELSE asErrAbuseRateLimit(o, defaultAbuseSleep)

\* RoundTrip that takes an error of the transport for an abuse answer
RateLimitResult_ErrLocks(o, locked) ==
    IF o.err # "nil" THEN [err |-> "ErrAbuseRateLimit", lockedUntil |-> defaultAbuseRetryAfter]
    ELSE IF checkResponseUnauth(o) # "nil"
         THEN [err |-> checkResponseUnauth(o), lockedUntil |-> locked]
         ELSE IF checkResponseRateLimit(o, defaultAbuseRetryAfter).err # "nil"
              THEN [err |-> checkResponseRateLimit(o, defaultAbuseRetryAfter).err,
                    lockedUntil |-> Max(0, checkResponseRateLimit(o, defaultAbuseRetryAfter).when)]
              ELSE [err |-> "nil", lockedUntil |-> locked]

\* The part of RateLimitTransport.RoundTrip after the base transport answered:
\* the error it returns and the lockedUntil it leaves
RateLimitResult(o, locked) ==
    IF o.err # "nil" THEN [err |-> o.err, lockedUntil |-> locked]
    ELSE IF checkResponseUnauth(o) # "nil"
         THEN [err |-> checkResponseUnauth(o), lockedUntil |-> locked]
         ELSE IF checkResponseRateLimit(o, defaultAbuseRetryAfter).err # "nil"
              THEN [err |-> checkResponseRateLimit(o, defaultAbuseRetryAfter).err,
                    lockedUntil |-> Max(0, checkResponseRateLimit(o, defaultAbuseRetryAfter).when)]
              ELSE [err |-> "nil", lockedUntil |-> locked]

IsRateLimitErr(e) == e \in {"ErrRateLimit", "ErrAbuseRateLimit"}

-----------------------------------------------------------------------------
(* retryTransport: the operation and the backoff policy *)

\* do that takes a cancelled context for one more failure
do_CanceledTransient(e, status) ==
    IF e = "ErrUnauthorized" THEN [kind |-> "permanent", err |-> e]
    ELSE IF e # "nil" THEN [kind |-> "transient", err |-> e]
    ELSE IF status >= StatusServerError THEN [kind |-> "transient", err |-> "ServerError"]
    ELSE [kind |-> "nil", err |-> "nil"]

\* do that gives up on a rate-limit error as it does on ErrUnauthorized
do_LimitPermanent(e, status) ==
    IF e = "Canceled" THEN [kind |-> "permanent", err |-> e]
    ELSE IF e \in {"ErrUnauthorized", "ErrRateLimit", "ErrAbuseRateLimit"}
         THEN [kind |-> "permanent", err |-> e]
    ELSE IF e # "nil" THEN [kind |-> "transient", err |-> e]
    ELSE IF status >= StatusServerError THEN [kind |-> "transient", err |-> "ServerError"]
    ELSE [kind |-> "nil", err |-> "nil"]

\* The closure do of retryTransport.RoundTrip, after t.T.RoundTrip returned
\* error e with a response of the given status
do(e, status) ==
    IF e = "Canceled" THEN [kind |-> "permanent", err |-> e]
    ELSE IF e = "ErrUnauthorized" THEN [kind |-> "permanent", err |-> e]
    ELSE IF e # "nil" THEN [kind |-> "transient", err |-> e]
    ELSE IF status >= StatusServerError THEN [kind |-> "transient", err |-> "ServerError"]
    ELSE [kind |-> "nil", err |-> "nil"]

\* ExponentialBackOff.incrementCurrentInterval
incrementCurrentInterval(interval) ==
    IF interval * multiplier >= maxInterval THEN maxInterval ELSE interval * multiplier

\* backoff.WithMaxRetries(backoffPolicy, maxRetries).NextBackOff() after n
\* tries, e ms after the retry loop began: the wait before the next try, or
\* Stop, and the policy's state afterwards.  The wait is the policy's
\* current interval (the library spreads it randomly around that value).
Stop == -1

NextBackOff(n, e, interval) ==
    IF maxRetries <= n
    THEN [next |-> Stop, numTries |-> n, currentInterval |-> interval]
    ELSE IF e > MaxElapsedTime
         THEN [next |-> Stop, numTries |-> n + 1, currentInterval |-> interval]
         ELSE [next |-> interval, numTries |-> n + 1,
               currentInterval |-> incrementCurrentInterval(interval)]

-----------------------------------------------------------------------------
(* History kept for the properties *)

NoSignal == [left |-> 0, status |-> 0, both |-> FALSE, parsed |-> TRUE]

\* The response asks to hold requests back until X-RateLimit-Reset + 1s
ResetSignal(o) ==
    IF o.err = "nil" /\ o.remaining = 0 /\ o.reset # NoHeader /\ o.reset + 1 > 0
    THEN [left |-> (o.reset + 1) * Second, status |-> o.status, both |-> FALSE,
          parsed |-> TRUE]
    ELSE NoSignal

\* The response is a 403 with Retry-After: N, or a 403 without it whose body
\* mentions abuse; both: it also carries X-RateLimit-Remaining: 0 and a reset;
\* parsed: its body is a JSON document
AbuseSignal(o) ==
    IF o.err = "nil" /\ o.status = StatusForbidden /\ o.retryAfter > 0
    THEN [left |-> o.retryAfter * Second, status |-> o.status,
          both |-> (o.remaining = 0 /\ o.reset # NoHeader), parsed |-> TRUE]
    ELSE IF /\ o.err = "nil" /\ o.status = StatusForbidden /\ o.retryAfter = NoHeader
            /\ o.body \in {"abuse", "abuse_text"}
         THEN [left |-> defaultAbuseRetryAfter, status |-> o.status,
               both |-> (o.remaining = 0 /\ o.reset # NoHeader),
               parsed |-> (o.body = "abuse")]
         ELSE NoSignal

\* A signal the stack is not bound by: that of a 401, of a 403 that carries
\* both kinds of headers, of a body that is no JSON
Excused(sig) == sig.status = StatusUnauthorized \/ sig.both \/ ~sig.parsed

\* Which of a pending signal and a new one to keep watching
Later(old, new) ==
    IF new.left = 0 THEN old
    ELSE IF old.left = 0 THEN new
    ELSE IF Excused(old) /\ ~Excused(new) THEN new
    ELSE IF ~Excused(old) /\ Excused(new) THEN old
    ELSE IF new.left >= old.left THEN new ELSE old

\* d ms pass: a signal whose time is up is forgotten
SigPass(s, d) == IF s.left <= d THEN NoSignal ELSE [s EXCEPT !.left = @ - d]

\* bytes.NewReader(b), with the number of bytes already read
NewReader(b) == [bytes |-> b, pos |-> 0]

\* ioutil.ReadAll(r): what is left to read of r
ReadAll(r) == SubSeq(r.bytes, r.pos + 1, Len(r.bytes))

\* A request with an empty body, before retryTransport.RoundTrip gets it
NoRequest == [orig |-> <<>>, requestBodyContent |-> <<>>, body |-> NewReader(<<>>)]

HistInit ==
    [ all5xx      |-> [c \in Callers |-> TRUE],
      first401    |-> [c \in Callers |-> 0],
      slept       |-> [c \in Callers |-> FALSE],
      resetSig    |-> NoSignal,
      abuseSig    |-> NoSignal ]

-----------------------------------------------------------------------------
(* Actions of the transport stack *)

InCall(c) == pc[c] \in {"lock", "sleep", "inflight", "backoff"}

\* d ms pass
Pass(d) ==
    /\ lockedUntil' = Max(0, lockedUntil - d)
    /\ timer' = [c \in Callers |-> Max(0, timer[c] - d)]
    /\ elapsed' = [c \in Callers |->
                     IF InCall(c) THEN Min(elapsed[c] + d, MaxElapsedTime + 1)
                     ELSE elapsed[c]]
    /\ hist' = [hist EXCEPT !.resetSig = SigPass(@, d), !.abuseSig = SigPass(@, d)]

PositiveTimers == { timer[c] : c \in { x \in Callers : timer[x] > 0 } }

MinOf(S) == CHOOSE x \in S : \A y \in S : x <= y

\* Time passes until the first pending sleep, wait or answer is due
Tick ==
    /\ PositiveTimers # {}
    /\ Pass(MinOf(PositiveTimers))
    /\ UNCHANGED <<mutex, pc, ctxDone, attempts, numTries, currentInterval,
                   lastOut, rlErr, ret, req, dvars>>

\* RoundTrip that forwards the request whatever lockedUntil is
Enter_NoSleep(c, lat, h) ==
    IF mutex # Free
    THEN /\ pc' = [pc EXCEPT ![c] = "lock"]
         /\ hist' = h
         /\ UNCHANGED <<mutex, timer>>
    ELSE /\ mutex' = c
         /\ pc' = [pc EXCEPT ![c] = "inflight"]
         /\ timer' = [timer EXCEPT ![c] = lat]
         /\ hist' = [h EXCEPT !.slept[c] = FALSE]

\* RoundTrip without rt.Lock()
Enter_NoLock(c, lat, h) ==
    /\ mutex' = c
    /\ IF lockedUntil > 0
       THEN /\ pc' = [pc EXCEPT ![c] = "sleep"]
            /\ timer' = [timer EXCEPT ![c] = lockedUntil]
            /\ hist' = [h EXCEPT !.slept[c] = TRUE]
       ELSE /\ pc' = [pc EXCEPT ![c] = "inflight"]
            /\ timer' = [timer EXCEPT ![c] = lat]
            /\ hist' = [h EXCEPT !.slept[c] = FALSE]

\* RateLimitTransport.RoundTrip up to the point where it waits: rt.Lock(),
\* then time.Sleep until lockedUntil or, with no lock pending, the call of
\* the underlying transport, whose answer takes lat ms (h: the history so far)
Enter(c, lat, h) ==
    IF mutex # Free
    THEN /\ pc' = [pc EXCEPT ![c] = "lock"]
         /\ hist' = h
         /\ UNCHANGED <<mutex, timer>>
    ELSE /\ mutex' = c
         /\ IF lockedUntil > 0
            THEN /\ pc' = [pc EXCEPT ![c] = "sleep"]
                 /\ timer' = [timer EXCEPT ![c] = lockedUntil]
                 /\ hist' = [h EXCEPT !.slept[c] = TRUE]
            ELSE /\ pc' = [pc EXCEPT ![c] = "inflight"]
                 /\ timer' = [timer EXCEPT ![c] = lat]
                 /\ hist' = [h EXCEPT !.slept[c] = FALSE]

\* retryTransport.RoundTrip is called with a request: it reads the body of
\* the request (orig notes what the body held), then retry starts its loop
\* and runs the operation for the first time, on a new reader of what was
\* read
StartRoundTrip(c, lat) ==
    /\ pc[c] = "idle"
    /\ attempts' = [attempts EXCEPT ![c] = 1]
    /\ numTries' = [numTries EXCEPT ![c] = 0]
    /\ currentInterval' = [currentInterval EXCEPT ![c] = initialInterval]
    /\ elapsed' = [elapsed EXCEPT ![c] = 0]
    /\ lastOut' = [lastOut EXCEPT ![c] = NoOut]
    /\ rlErr' = [rlErr EXCEPT ![c] = "none"]
    /\ ret' = [ret EXCEPT ![c] = "none"]
    /\ req' = [req EXCEPT ![c] = [orig |-> ReadAll(@.body),
                                  requestBodyContent |-> ReadAll(@.body),
                                  body |-> NewReader(ReadAll(@.body))]]
    /\ Enter(c, lat, [hist EXCEPT !.all5xx[c] = TRUE, !.first401[c] = 0])
    /\ UNCHANGED lockedUntil

\* A caller sends a request, with a context of its own, through the stack
RoundTrip(c, lat) ==
    /\ dl.caller # c
    /\ StartRoundTrip(c, lat)
    /\ ctxDone' = [ctxDone EXCEPT ![c] = FALSE]
    /\ UNCHANGED dvars

\* rt.Lock() returns to a caller that waited for the mutex
Lock(c, lat) ==
    /\ pc[c] = "lock"
    /\ mutex = Free
    /\ Enter(c, lat, hist)
    /\ UNCHANGED <<lockedUntil, ctxDone, attempts, numTries, currentInterval,
                   elapsed, lastOut, rlErr, ret, req, dvars>>

\* time.Sleep returns: the request goes to the underlying transport,
\* whatever became of its context meanwhile
Wake(c, lat) ==
    /\ pc[c] = "sleep"
    /\ timer[c] = 0
    /\ pc' = [pc EXCEPT ![c] = "inflight"]
    /\ timer' = [timer EXCEPT ![c] = lat]
    /\ UNCHANGED <<lockedUntil, mutex, ctxDone, attempts, numTries, currentInterval,
                   elapsed, lastOut, rlErr, ret, hist, req, dvars>>

\* The underlying transport returns: the rest of RateLimitTransport.RoundTrip
\* (with the deferred rt.Unlock()), of the operation do, and of that round of
\* backoff.RetryNotify, up to its wait or to the return of
\* retryTransport.RoundTrip.  A transport whose request's context is
\* cancelled returns context.Canceled.  The transport has read the first n
\* bytes of the body it was given.
Response(c, out) ==
    /\ pc[c] = "inflight"
    /\ timer[c] = 0
    /\ LET o == IF ctxDone[c] THEN TransportErr("Canceled") ELSE out
           r == RateLimitResult(o, lockedUntil)
           d == do(r.err, o.status)
           b == NextBackOff(numTries[c], elapsed[c], currentInterval[c])
       IN  /\ lockedUntil' = r.lockedUntil
           /\ mutex' = Free
           /\ lastOut' = [lastOut EXCEPT ![c] = o]
           /\ rlErr' = [rlErr EXCEPT ![c] = r.err]
           /\ hist' = [hist EXCEPT
                         !.all5xx[c] = @ /\ o.err = "nil" /\ o.status >= StatusServerError,
                         !.first401[c] = IF @ = 0 /\ o.status = StatusUnauthorized
                                         THEN attempts[c] ELSE @,
                         !.resetSig = Later(@, ResetSignal(o)),
                         !.abuseSig = Later(@, AbuseSignal(o))]
           /\ IF d.kind = "transient"
              THEN /\ numTries' = [numTries EXCEPT ![c] = b.numTries]
                   /\ currentInterval' = [currentInterval EXCEPT ![c] = b.currentInterval]
                   /\ IF b.next = Stop
                      THEN /\ pc' = [pc EXCEPT ![c] = "idle"]
                           /\ ret' = [ret EXCEPT ![c] = d.err]
                           /\ UNCHANGED timer
                      ELSE /\ pc' = [pc EXCEPT ![c] = "backoff"]
                           /\ timer' = [timer EXCEPT ![c] = b.next]
                           /\ UNCHANGED ret
              ELSE /\ pc' = [pc EXCEPT ![c] = "idle"]
                   /\ ret' = [ret EXCEPT ![c] = d.err]
                   /\ UNCHANGED <<numTries, currentInterval, timer>>
    /\ \E n \in 0 .. Len(req[c].body.bytes) : req' = [req EXCEPT ![c].body.pos = n]
    /\ UNCHANGED <<ctxDone, attempts, elapsed, dvars>>

\* do that sends the request again as the last attempt left it
BackoffDone_SameBody(c, lat) ==
    /\ pc[c] = "backoff"
    /\ timer[c] = 0
    /\ attempts' = [attempts EXCEPT ![c] = @ + 1]
    /\ lastOut' = [lastOut EXCEPT ![c] = NoOut]
    /\ rlErr' = [rlErr EXCEPT ![c] = "none"]
    /\ Enter(c, lat, hist)
    /\ UNCHANGED <<lockedUntil, ctxDone, numTries, currentInterval, elapsed, ret, req, dvars>>

\* The backoff timer of backoff.RetryNotify fires (it waits on the timer
\* and on context.Background() only): the operation runs again, on a new
\* reader of requestBodyContent
BackoffDone(c, lat) ==
    /\ pc[c] = "backoff"
    /\ timer[c] = 0
    /\ attempts' = [attempts EXCEPT ![c] = @ + 1]
    /\ lastOut' = [lastOut EXCEPT ![c] = NoOut]
    /\ rlErr' = [rlErr EXCEPT ![c] = "none"]
    /\ req' = [req EXCEPT ![c].body = NewReader(req[c].requestBodyContent)]
    /\ Enter(c, lat, hist)
    /\ UNCHANGED <<lockedUntil, ctxDone, numTries, currentInterval, elapsed, ret, dvars>>

\* The context of a caller's request, or of its download, is cancelled while
\* that is under way; a request in flight then fails at once
Cancel(c) ==
    /\ InCall(c) \/ (dl.caller = c /\ dl.pc \in {"step", "query", "return"})
    /\ ~ctxDone[c]
    /\ ctxDone' = [ctxDone EXCEPT ![c] = TRUE]
    /\ timer' = [timer EXCEPT ![c] = IF pc[c] = "inflight" THEN 0 ELSE @]
    /\ UNCHANGED <<lockedUntil, mutex, pc, attempts, numTries, currentInterval, hist,
                   elapsed, lastOut, rlErr, ret, req, dvars>>

-----------------------------------------------------------------------------
(* The storer: store.DB over one database *)

\* A record as a Save method gets it: its kind, the id-context that comes as
\* separate arguments (the owner and name of the repository, the id and
\* login of the organization) and the content the server returned
Record(kind, ctx, id) == [kind |-> kind, ctx |-> ctx, id |-> id]

\* hashString of the Save methods: the SHA-256 of the string each of them
\* builds, which SaveUser builds of the user alone
sum256(rec) ==
    IF rec.kind = "user" THEN <<rec.kind, rec.id>>
    ELSE <<rec.kind, rec.ctx, rec.id>>

\* An INSERT that replaces the versions of the row that is there
Upsert_ReplaceVersions(rows, rec, v) ==
    IF \E r \in rows : r.fp = sum256(rec)
    THEN { IF r.fp = sum256(rec) THEN [r EXCEPT !.versions = <<v>>] ELSE r : r \in rows }
    ELSE rows \cup { [fp |-> sum256(rec), versions |-> <<v>>, rec |-> rec] }

\* An INSERT that leaves alone a row that has the version already
Upsert_OnceOnly(rows, rec, v) ==
    IF \E r \in rows : r.fp = sum256(rec)
    THEN { IF r.fp = sum256(rec) /\ \A i \in DOMAIN r.versions : r.versions[i] # v
           THEN [r EXCEPT !.versions = Append(@, v)] ELSE r : r \in rows }
    ELSE rows \cup { [fp |-> sum256(rec), versions |-> <<v>>, rec |-> rec] }

\* INSERT ... ON CONFLICT (sum256) DO UPDATE SET versions = array_append(versions, v)
Upsert(rows, rec, v) ==
    IF \E r \in rows : r.fp = sum256(rec)
    THEN { IF r.fp = sum256(rec) THEN [r EXCEPT !.versions = Append(@, v)] ELSE r :
              r \in rows }
    ELSE rows \cup { [fp |-> sum256(rec), versions |-> <<v>>, rec |-> rec] }

\* DB.Begin: s.tx = s.DB.Begin(); writes are the statements run in s.tx
Begin(st) == [st EXCEPT !.tx = "open", !.writes = <<>>]

\* A Save that runs its INSERT on the database, outside the transaction
Save_OutsideTx(st, rec) == [st EXCEPT !.rows = Upsert(@, rec, st.v)]

\* A Save method of the storer: s.tx.ExecContext of the INSERT above
Save(st, rec) == [st EXCEPT !.writes = Append(@, [rec |-> rec, v |-> st.v])]

RECURSIVE Apply(_, _)
\* What the statements of a transaction make of the rows
Apply(rows, writes) ==
    IF writes = <<>> THEN rows
    ELSE Apply(Upsert(rows, Head(writes).rec, Head(writes).v), Tail(writes))

\* DB.Commit: s.tx.Commit(), which the database may fail
Commit(st, ok) ==
    [st EXCEPT !.tx = "closed", !.rows = IF ok THEN Apply(@, st.writes) ELSE @,
               !.writes = <<>>]

\* DB.Rollback: s.tx.Rollback()
Rollback(st) == [st EXCEPT !.tx = "closed", !.writes = <<>>]

\* var tables, in the order in which SetActiveVersion and Cleanup take them
tables ==
    << "organizations_versioned", "users_versioned", "repositories_versioned",
       "issues_versioned", "issue_comments_versioned", "pull_requests_versioned",
       "pull_request_reviews_versioned", "pull_request_comments_versioned" >>

\* A SavePullRequestComment that inserts into the table of the review comments
TableOf_OwnTable(kind) ==
    CASE kind = "organization" -> "organizations_versioned"
      [] kind = "user" -> "users_versioned"
      [] kind = "repository" -> "repositories_versioned"
      [] kind = "issue" -> "issues_versioned"
      [] kind = "issueComment" -> "issue_comments_versioned"
      [] kind = "pullRequestComment" -> "pull_request_comments_versioned"
      [] kind = "pullRequest" -> "pull_requests_versioned"
      [] kind = "review" -> "pull_request_reviews_versioned"
      [] kind = "reviewComment" -> "pull_request_comments_versioned"

\* The table each Save method inserts into; SavePullRequestComment calls
\* SaveIssueComment
TableOf(kind) ==
    CASE kind = "organization" -> "organizations_versioned"
      [] kind = "user" -> "users_versioned"
      [] kind = "repository" -> "repositories_versioned"
      [] kind = "issue" -> "issues_versioned"
      [] kind = "issueComment" -> "issue_comments_versioned"
      [] kind = "pullRequestComment" -> "issue_comments_versioned"
      [] kind = "pullRequest" -> "pull_requests_versioned"
      [] kind = "review" -> "pull_request_reviews_versioned"
      [] kind = "reviewComment" -> "pull_request_comments_versioned"

\* v = ANY(versions)
AnyOf(v, versions) == \E i \in DOMAIN versions : versions[i] = v

\* The rows of a versioned table
From(rows, table) == { r \in rows : TableOf(r.rec.kind) = table }

\* No view exists before the first SetActiveVersion
NoView == [exists |-> FALSE, from |-> "none", v |-> 0]

\* A view that selects all the rows of the table
CreateView_AllRows(table, v) == [exists |-> TRUE, from |-> "none", v |-> v]

\* CREATE OR REPLACE VIEW ... AS SELECT cols FROM table WHERE v = ANY(versions):
\* the view keeps the query
CreateView(table, v) == [exists |-> TRUE, from |-> table, v |-> v]

\* A view that shows every row of its versioned table
Select_Versioned(st, i) ==
    IF ~st.views[i].exists THEN {}
    ELSE { r.rec : r \in From(st.rows, tables[i]) }

\* SELECT * FROM the i-th view: the stored query, run on the rows of now,
\* gives their columns but sum256 and versions
Select(st, i) ==
    IF ~st.views[i].exists THEN {}
    ELSE IF st.views[i].from = "none" THEN { r.rec : r \in From(st.rows, tables[i]) }
    ELSE { r.rec : r \in { x \in From(st.rows, st.views[i].from) :
                               AnyOf(st.views[i].v, x.versions) } }

\* A SetActiveVersion that replaces the eight views in one transaction
SetActiveVersion_OneTransaction(views, v, n) ==
    [i \in DOMAIN views |->
        IF n = Len(tables) THEN CreateView(tables[i], v) ELSE views[i]]

\* DB.SetActiveVersion, of whose statements the first n succeed: the views
\* of the first n tables are replaced
SetActiveVersion(views, v, n) ==
    [i \in DOMAIN views |-> IF i <= n THEN CreateView(tables[i], v) ELSE views[i]]

\* The place of the table of a row in var tables
IndexOf(r) == CHOOSE i \in DOMAIN tables : tables[i] = TableOf(r.rec.kind)

\* DB.Cleanup that does not delete
Cleanup_NoDelete(rows, v, n) ==
    { IF 2 * IndexOf(r) <= n THEN [r EXCEPT !.versions = <<v>>] ELSE r : r \in rows }

\* DB.Cleanup, of whose statements the first n succeed: table after table,
\* DELETE ... WHERE v <> ALL(versions), then UPDATE ... SET versions = array[v]
Cleanup(rows, v, n) ==
    { IF 2 * IndexOf(r) <= n THEN [r EXCEPT !.versions = <<v>>] ELSE r :
         r \in { x \in rows : ~(2 * IndexOf(x) - 1 <= n /\ ~AnyOf(v, x.versions)) } }

\* The k-th of the 2 * Len(tables) statements of DB.Cleanup, each run on
\* s.DB by itself: the DELETE (k odd) or the UPDATE (k even) of a table
Statement(rows, v, k) ==
    LET i == (k + 1) \div 2
    IN  IF k % 2 = 1
        THEN { r \in rows : ~(IndexOf(r) = i /\ ~AnyOf(v, r.versions)) }
        ELSE { IF IndexOf(r) = i THEN [r EXCEPT !.versions = <<v>>] ELSE r : r \in rows }

-----------------------------------------------------------------------------
(* The downloader: the steps of one download, in the order of the code *)

\* Pages of every connection of the downloaded entity
MaxPages == 2
\* Nodes on every page of a connection
MaxNodes == 1
\* Downloads run one after the other on one Downloader
MaxDownloads == 2
\* The versions a caller tags the records with: 0 .. MaxVersion
MaxVersion == 1

Shapes == [pages : 1 .. MaxPages, nodes : 0 .. MaxNodes]

Q(t) == [op |-> "query", what |-> <<t>>]
S(kind, id) == [op |-> "save", what |-> <<kind>> \o id]

RECURSIVE Flatten(_)
Flatten(ss) == IF ss = <<>> THEN <<>> ELSE Head(ss) \o Flatten(Tail(ss))

\* downloadConnection: process the first page, which came with the parent,
\* then query and process page after page while HasNextPage; process[p] are
\* the steps that processing page p takes
downloadConnection(t, pages, process) ==
    Flatten([p \in 1 .. pages |-> IF p = 1 THEN process[p] ELSE <<Q(t)>> \o process[p]])

\* A connection whose nodes are only collected: topics, assignees, labels
downloadNames(t, sh) == downloadConnection(t, sh.pages, [p \in 1 .. sh.pages |-> <<>>])

\* A connection whose every node is saved and has nothing below it
downloadLeaves(t, kind, id, sh) ==
    downloadConnection(t, sh.pages,
        [p \in 1 .. sh.pages |-> [n \in 1 .. sh.nodes |-> S(kind, id \o <<p, n>>)]])

\* downloadIssues that saves an issue before it fetches its labels
downloadIssues_SaveBeforeLabels(sh) ==
    downloadConnection("issues", sh.pages,
        [p \in 1 .. sh.pages |-> Flatten([n \in 1 .. sh.nodes |->
            downloadNames("assignees", sh)
            \o <<S("issue", <<p, n>>)>> \o downloadNames("labels", sh)
            \o downloadLeaves("issueComments", "issueComment", <<p, n>>, sh)])])

downloadIssues(sh) ==
    downloadConnection("issues", sh.pages,
        [p \in 1 .. sh.pages |-> Flatten([n \in 1 .. sh.nodes |->
            downloadNames("assignees", sh) \o downloadNames("labels", sh)
            \o <<S("issue", <<p, n>>)>>
            \o downloadLeaves("issueComments", "issueComment", <<p, n>>, sh)])])

\* downloadPullRequestReviews that saves the comments of a review before it
downloadPullRequestReviews_CommentsFirst(id, sh) ==
    downloadConnection("pullRequestReviews", sh.pages,
        [p \in 1 .. sh.pages |-> Flatten([n \in 1 .. sh.nodes |->
            downloadLeaves("pullRequestReviewComments", "reviewComment",
                           id \o <<p, n>>, sh)
            \o <<S("review", id \o <<p, n>>)>>])])

downloadPullRequestReviews(id, sh) ==
    downloadConnection("pullRequestReviews", sh.pages,
        [p \in 1 .. sh.pages |-> Flatten([n \in 1 .. sh.nodes |->
            <<S("review", id \o <<p, n>>)>>
            \o downloadLeaves("pullRequestReviewComments", "reviewComment",
                              id \o <<p, n>>, sh)])])

downloadPullRequests(sh) ==
    downloadConnection("pullRequests", sh.pages,
        [p \in 1 .. sh.pages |-> Flatten([n \in 1 .. sh.nodes |->
            downloadNames("assignees", sh) \o downloadNames("labels", sh)
            \o <<S("pullRequest", <<p, n>>)>>
            \o downloadLeaves("issueComments", "pullRequestComment", <<p, n>>, sh)
            \o downloadPullRequestReviews(<<p, n>>, sh)])])

\* DownloadRepository between Begin and the deferred call
RepositoryPlan(sh) ==
    <<Q("repository")>> \o downloadNames("topics", sh) \o <<S("repository", <<>>)>>
    \o downloadIssues(sh) \o downloadPullRequests(sh)

\* DownloadOrganization between Begin and the deferred call
OrganizationPlan(sh) ==
    <<Q("organization"), S("organization", <<>>)>>
    \o downloadLeaves("membersWithRole", "user", <<>>, sh)

Kinds == {"repository", "organization"}

Plan(kind, sh) == IF kind = "repository" THEN RepositoryPlan(sh) ELSE OrganizationPlan(sh)

RECURSIVE PlanTable(_)
PlanTable(keys) ==
    IF keys = {} THEN <<>>
    ELSE LET k == CHOOSE x \in keys : TRUE
         IN  (k :> Plan(k[1], k[2])) @@ PlanTable(keys \ {k})

\* The steps of the download of each kind of entity of each shape
Plans == PlanTable(Kinds \X Shapes)

\* The steps of a download
PlanOf(d) == Plans[<<d.kind, d.shape>>]

\* The record that step i of a download saves: the owner and name of the
\* downloaded repository, or the id and login of the downloaded organization,
\* go with what the server returned
RecordOf(d, i) == Record(Head(PlanOf(d)[i].what), d.entity, Tail(PlanOf(d)[i].what))

\* client.Query: the error of the HTTP client, or the one it makes of a
\* response that is not a 200
QueryErr(e, o) ==
    IF e # "nil" THEN e
    ELSE IF o.status # StatusOK THEN "Non200" ELSE "nil"

\* A deferred function that commits whatever happened
deferred_AlwaysCommit(err) == "Commit"

\* The deferred function of DownloadRepository and DownloadOrganization
deferred(err) == IF err # "nil" THEN "Rollback" ELSE "Commit"

\* shape: what the server holds; qErr, qAttempts: the error of the query that
\* failed and the attempts it took; arg: the version SetCurrent or Cleanup
\* was called with; deleted: the rows the DELETE statements of Cleanup deleted
NoDownload ==
    [caller |-> "none", pc |-> "off", kind |-> "none", shape |-> [pages |-> 1, nodes |-> 0],
     entity |-> "none", pos |-> 0, err |-> "nil", res |-> "none", failed |-> FALSE,
     qErr |-> "none", qAttempts |-> 0, invoked |-> "none", n |-> 0, arg |-> 0,
     deleted |-> 0]

\* active: whether the last call of SetActiveVersion returned nil, and its
\* version
NoStore ==
    [v |-> 0, tx |-> "none", writes |-> <<>>, rows |-> {},
     views |-> [i \in DOMAIN tables |-> NoView], active |-> [set |-> FALSE, v |-> 0]]

\* DownloadRepository or DownloadOrganization is called: Version, Begin
Download(c, kind, entity, version, beginOk) ==
    /\ dl.pc \in {"off", "done"}
    /\ dl.n < MaxDownloads
    /\ pc[c] = "idle"
    /\ ctxDone' = [ctxDone EXCEPT ![c] = FALSE]
    /\ IF beginOk
       THEN /\ store' = Begin([store EXCEPT !.v = version])
            /\ dl' = [NoDownload EXCEPT !.caller = c, !.pc = "step", !.kind = kind,
                                        !.entity = entity,
                                        !.shape = dl.shape, !.pos = 1,
                                        !.n = dl.n + 1]
       ELSE /\ store' = [store EXCEPT !.v = version]
            /\ dl' = [NoDownload EXCEPT !.caller = c, !.pc = "done", !.kind = kind,
                                        !.entity = entity,
                                        !.shape = dl.shape,
                                        !.res = "BeginError", !.failed = TRUE,
                                        !.n = dl.n + 1]
    /\ UNCHANGED <<lockedUntil, mutex, pc, timer, attempts, numTries, currentInterval,
                   elapsed, lastOut, rlErr, ret, hist, req, conn, dp, cmd>>

\* The download goes on after step pos, or returns when that was the last
Advance(d) ==
    IF d.pos = Len(PlanOf(d))
    THEN [d EXCEPT !.pc = "return", !.pos = @ + 1]
    ELSE [d EXCEPT !.pc = "step", !.pos = @ + 1]

\* The next step is a query: client.Query sends it through the stack
Query(c, lat) ==
    /\ dl.caller = c
    /\ dl.pc = "step"
    /\ PlanOf(dl)[dl.pos].op = "query"
    /\ StartRoundTrip(c, lat)
    /\ dl' = [dl EXCEPT !.pc = "query"]
    /\ UNCHANGED <<ctxDone, store, conn, dp, cmd>>

\* client.Query returns, and with it retryTransport.RoundTrip, whose
\* variables are gone
QueryDone(c) ==
    /\ dl.caller = c
    /\ dl.pc = "query"
    /\ pc[c] = "idle"
    /\ LET e == QueryErr(ret[c], lastOut[c])
       IN  dl' = IF e # "nil"
                 THEN [dl EXCEPT !.pc = "return", !.err = e, !.failed = TRUE,
                                 !.qErr = e, !.qAttempts = attempts[c]]
                 ELSE Advance(dl)
    /\ attempts' = [attempts EXCEPT ![c] = 0]
    /\ numTries' = [numTries EXCEPT ![c] = 0]
    /\ currentInterval' = [currentInterval EXCEPT ![c] = initialInterval]
    /\ elapsed' = [elapsed EXCEPT ![c] = 0]
    /\ lastOut' = [lastOut EXCEPT ![c] = NoOut]
    /\ rlErr' = [rlErr EXCEPT ![c] = "none"]
    /\ ret' = [ret EXCEPT ![c] = "none"]
    /\ hist' = [hist EXCEPT !.all5xx[c] = TRUE, !.first401[c] = 0, !.slept[c] = FALSE]
    /\ UNCHANGED <<lockedUntil, mutex, pc, ctxDone, timer, req, store, conn, dp, cmd>>

\* The next step is a Save of the storer, which fails when the database
\* fails it or when the context is cancelled
SaveStep(c, ok) ==
    /\ dl.caller = c
    /\ dl.pc = "step"
    /\ PlanOf(dl)[dl.pos].op = "save"
    /\ IF ok /\ ~ctxDone[c]
       THEN /\ store' = Save(store, RecordOf(dl, dl.pos))
            /\ dl' = Advance(dl)
       ELSE /\ dl' = [dl EXCEPT !.pc = "return", !.err = "SaveError", !.failed = TRUE]
            /\ UNCHANGED store
    /\ UNCHANGED <<tvars, conn, dp, cmd>>

\* The download returns: its deferred function calls Rollback or Commit
\* and drops what they return
Return(c, ok) ==
    /\ dl.caller = c
    /\ dl.pc = "return"
    /\ store' = IF deferred(dl.err) = "Rollback" THEN Rollback(store)
                ELSE Commit(store, ok)
    /\ dl' = [dl EXCEPT !.pc = "done", !.res = dl.err, !.invoked = deferred(dl.err)]
    /\ UNCHANGED <<tvars, conn, dp, cmd>>

\* How many statements of SetActiveVersion and of Cleanup the database runs
\* before it fails one: half of them (of Cleanup, the DELETE of the next
\* table too), or all
StatementsOfSetActiveVersion == {Len(tables) \div 2, Len(tables)}
StatementsOfCleanup == {Len(tables) + 1, 2 * Len(tables)}

\* Downloader.SetCurrent
SetCurrent(c, v, n) ==
    /\ dl.pc \in {"off", "done"}
    /\ pc[c] = "idle"
    /\ store' = [store EXCEPT !.views = SetActiveVersion(@, v, n),
                              !.active = [set |-> n = Len(tables),
                                          v |-> IF n = Len(tables) THEN v ELSE 0]]
    /\ dl' = [NoDownload EXCEPT !.caller = c, !.pc = "done", !.kind = "SetCurrent",
                                !.shape = dl.shape, !.n = dl.n, !.arg = v,
                                !.res = IF n = Len(tables) THEN "nil"
                                        ELSE "SetCurrentError"]
    /\ UNCHANGED <<tvars, conn, dp, cmd>>

\* Downloader.Cleanup
DownloaderCleanup(c, v, n) ==
    /\ dl.pc \in {"off", "done"}
    /\ pc[c] = "idle"
    /\ store' = [store EXCEPT !.rows = Cleanup(@, v, n)]
    /\ dl' = [NoDownload EXCEPT !.caller = c, !.pc = "done", !.kind = "Cleanup",
                                !.shape = dl.shape, !.n = dl.n, !.arg = v,
                                !.deleted = Cardinality(store.rows)
                                            - Cardinality(Cleanup(store.rows, v, n)),
                                !.res = IF n = 2 * Len(tables) THEN "nil"
                                        ELSE "CleanupError"]
    /\ UNCHANGED <<tvars, conn, dp, cmd>>

\* DownloaderCmd.commit that calls Cleanup whatever SetCurrent returned
commit_CleanupAnyway(c, v, cleanup, n, m) ==
    /\ dl.pc \in {"off", "done"}
    /\ pc[c] = "idle"
    /\ store' = [store EXCEPT !.views = SetActiveVersion(@, v, n),
                              !.active = [set |-> n = Len(tables),
                                          v |-> IF n = Len(tables) THEN v ELSE 0],
                              !.rows = IF cleanup THEN Cleanup(@, v, m) ELSE @]
    /\ dl' = [NoDownload EXCEPT !.caller = c, !.pc = "done", !.kind = "commit",
                                !.shape = dl.shape, !.n = dl.n, !.arg = v,
                                !.invoked = IF cleanup THEN "Cleanup" ELSE "SetCurrent",
                                !.deleted = Cardinality(store.rows)
                                            - Cardinality(store.rows')]
    /\ UNCHANGED <<tvars, conn, dp, cmd>>

\* DownloaderCmd.commit of the example command, with its Version and Cleanup
\* options: SetCurrent, of whose statements n succeed, and when it returned
\* nil and cleanup is on, Cleanup, of whose statements m succeed
commit(c, v, cleanup, n, m) ==
    /\ dl.pc \in {"off", "done"}
    /\ pc[c] = "idle"
    /\ store' = [store EXCEPT !.views = SetActiveVersion(@, v, n),
                              !.active = [set |-> n = Len(tables),
                                          v |-> IF n = Len(tables) THEN v ELSE 0],
                              !.rows = IF n = Len(tables) /\ cleanup
                                       THEN Cleanup(@, v, m) ELSE @]
    /\ dl' = [NoDownload EXCEPT !.caller = c, !.pc = "done", !.kind = "commit",
                                !.shape = dl.shape, !.n = dl.n, !.arg = v,
                                !.invoked = IF n = Len(tables) /\ cleanup
                                            THEN "Cleanup" ELSE "SetCurrent",
                                !.res = IF n # Len(tables) THEN "SetCurrentError"
                                        ELSE IF cleanup /\ m # 2 * Len(tables)
                                             THEN "CleanupError" ELSE "nil",
                                !.deleted = Cardinality(store.rows)
                                            - Cardinality(store.rows')]
    /\ UNCHANGED <<tvars, conn, dp, cmd>>

\* Downloader.Cleanup is called by a process of its own, on the database
\* another process downloads into
CleanupCalled(v) ==
    /\ cmd.pc = "off"
    /\ cmd' = [cmd EXCEPT !.pc = "Cleanup", !.Version = v, !.stmt = 1]
    /\ UNCHANGED <<tvars, dl, store, conn, dp>>

\* One ExecContext of that Cleanup, which the database may fail; Cleanup
\* returns after the first that fails, or after the last
CleanupStatement(ok) ==
    /\ cmd.pc = "Cleanup"
    /\ store' = [store EXCEPT !.rows = IF ok THEN Statement(@, cmd.Version, cmd.stmt)
                                        ELSE @]
    /\ cmd' = IF ok /\ cmd.stmt < 2 * Len(tables)
              THEN [cmd EXCEPT !.stmt = @ + 1]
              ELSE [cmd EXCEPT !.pc = "returned",
                               !.err = IF ok THEN "nil" ELSE "CleanupError"]
    /\ UNCHANGED <<tvars, dl, conn, dp>>

-----------------------------------------------------------------------------
(* The DownloadersPool of the example command and downloadParallel *)

\* The clients of the pool (one per token) and the params of a batch
MaxClients == 2
MaxParams == 3

Workers == 1 .. MaxParams

\* A goroutine of downloadParallel that was not started.  v: the version
\* its download is called with; ran: the download has returned; tx, sv: the
\* goroutine whose Begin opened the transaction its last Save ran on, and
\* the version this Save wrote, all three while the download runs
NoWorker ==
    [pc |-> "none", item |-> 0, err |-> "nil", v |-> 0, ran |-> FALSE, tx |-> 0, sv |-> 0]

\* The store.DB of a downloader, NewDownloader's &store.DB{DB: db}: how many
\* transactions begun on it are open, the goroutine that began s.tx while
\* one is, and s.v
NewDB == [open |-> 0, by |-> 0, v |-> 0]

\* NewDownloadersPool: the channel holds every downloader; no batch runs.
\* last: what the last call of Begin or End returned
NewDownloadersPool(size) ==
    [Size |-> size, pool |-> [i \in 1 .. size |-> i], started |-> FALSE, ended |-> FALSE,
     last |-> "none", main |-> "idle", params |-> 0, spawned |-> 0, canceled |-> FALSE,
     errCh |-> <<>>, ret |-> "none", w |-> [i \in Workers |-> NoWorker],
     db |-> [i \in 1 .. size |-> NewDB]]

NoPool == NewDownloadersPool(1)

\* ExecuteBody before it is called.  failed notes that a listing or a
\* download of the run returned an error, invoked what commit called, stmt
\* the statement a Cleanup of its own is at
NoCommand ==
    [pc |-> "off", Version |-> 0, Cleanup |-> FALSE, err |-> "none", stats |-> "none",
     failed |-> FALSE, invoked |-> {}, stmt |-> 0]

\* dp.stats takes a downloader from the channel and puts it back, Size times
\* or until singleStats fails: k downloaders answered
stats(ch, size, k) ==
    LET n == IF k = size THEN size ELSE k + 1
    IN  SubSeq(ch, n + 1, Len(ch)) \o SubSeq(ch, 1, n)

\* DownloadersPool.Begin, called by the main goroutine outside a batch
PoolBegin(k) ==
    /\ dp.main \in {"idle", "returned"}
    /\ k <= dp.Size
    /\ dp' = IF dp.started \/ dp.ended
             THEN [dp EXCEPT !.last = "invalid state"]
             ELSE [dp EXCEPT !.started = TRUE,
                             !.pool = stats(@, dp.Size, k),
                             !.last = IF k = dp.Size THEN "nil" ELSE "stats error"]
    /\ UNCHANGED <<tvars, dl, store, conn, cmd>>

\* DownloadersPool.End, called by the main goroutine outside a batch
PoolEnd(k) ==
    /\ dp.main \in {"idle", "returned"}
    /\ k <= dp.Size
    /\ dp' = IF ~dp.started \/ dp.ended
             THEN [dp EXCEPT !.last = "invalid state"]
             ELSE [dp EXCEPT !.ended = TRUE,
                             !.pool = stats(@, dp.Size, k),
                             !.last = IF k = dp.Size THEN "nil" ELSE "stats error"]
    /\ UNCHANGED <<tvars, dl, store, conn, cmd>>

\* downloadParallel is called with n params
downloadParallel(n) ==
    /\ dp.main = "idle"
    /\ dp' = [dp EXCEPT !.main = "go", !.params = n]
    /\ UNCHANGED <<tvars, dl, store, conn, cmd>>

\* go func(logger, p) for the next param
Go ==
    /\ dp.main = "go"
    /\ dp' = [dp EXCEPT !.main = "loop", !.spawned = @ + 1,
                        !.w[dp.spawned + 1].pc = "WithDownloader"]
    /\ UNCHANGED <<tvars, dl, store, conn, cmd>>

\* if ctx.Err() != nil { break }, or the range is over: wg.Wait()
Loop ==
    /\ dp.main = "loop"
    /\ dp' = [dp EXCEPT !.main = IF dp.canceled \/ dp.spawned = dp.params
                                 THEN "wait" ELSE "go"]
    /\ UNCHANGED <<tvars, dl, store, conn, cmd>>

\* A WithDownloader that reads the downloader and leaves it in the channel
WithDownloader_SharedItem(w) ==
    /\ dp.w[w].pc = "WithDownloader"
    /\ IF ~dp.started \/ dp.ended
       THEN dp' = [dp EXCEPT !.w[w].err = "invalid state", !.w[w].pc = "check"]
       ELSE /\ dp.pool # <<>>
            /\ dp' = [dp EXCEPT !.w[w].item = Head(dp.pool), !.w[w].pc = "f"]
    /\ UNCHANGED <<tvars, dl, store, conn, cmd>>

\* A WithDownloader that does not look at started and ended
WithDownloader_NoStateCheck(w) ==
    /\ dp.w[w].pc = "WithDownloader"
    /\ dp.pool # <<>>
    /\ dp' = [dp EXCEPT !.pool = Tail(@), !.w[w].item = Head(dp.pool), !.w[w].pc = "f"]
    /\ UNCHANGED <<tvars, dl, store, conn, cmd>>

\* WithDownloader: the invalid state error, or item := <-dp.pool, which
\* blocks while the channel is empty
WithDownloader(w) ==
    /\ dp.w[w].pc = "WithDownloader"
    /\ IF ~dp.started \/ dp.ended
       THEN dp' = [dp EXCEPT !.w[w].err = "invalid state", !.w[w].pc = "check"]
       ELSE /\ dp.pool # <<>>
            /\ dp' = [dp EXCEPT !.pool = Tail(@), !.w[w].item = Head(dp.pool),
                                !.w[w].pc = "f"]
    /\ UNCHANGED <<tvars, dl, store, conn, cmd>>

\* f(item) calls DownloadRepository or DownloadOrganization with a version:
\* d.storer.Version(version), then d.storer.Begin(), whose error ends the
\* download
Begin_f(w, v, ok) ==
    /\ dp.w[w].pc = "f"
    /\ ~dp.w[w].ran
    /\ LET i == dp.w[w].item
       IN  dp' = IF ok
                 THEN [dp EXCEPT !.db[i] = [open |-> @.open + 1, by |-> w, v |-> v],
                                 !.w[w].v = v, !.w[w].pc = "Begin"]
                 ELSE [dp EXCEPT !.db[i].v = v,
                                 !.w[w].ran = TRUE, !.w[w].err = "error"]
    /\ UNCHANGED <<tvars, dl, store, conn, cmd>>

\* A Save of the download: s.tx.ExecContext with s.v, on what s.tx and s.v
\* are at this moment
Save_f(w) ==
    /\ dp.w[w].pc \in {"Begin", "Save"}
    /\ dp' = [dp EXCEPT !.w[w].pc = "Save",
                        !.w[w].tx = dp.db[dp.w[w].item].by,
                        !.w[w].sv = dp.db[dp.w[w].item].v]
    /\ UNCHANGED <<tvars, dl, store, conn, cmd>>

\* The deferred function of the download: d.storer.Rollback() when err is
\* not nil, d.storer.Commit() otherwise; either ends s.tx
Deferred_f(w, err) ==
    /\ dp.w[w].pc \in {"Begin", "Save"}
    /\ err = "canceled" => dp.canceled
    /\ dp' = [dp EXCEPT !.db[dp.w[w].item].open = @ - 1,
                        !.db[dp.w[w].item].by = IF dp.db[dp.w[w].item].open = 1
                                                THEN 0 ELSE @,
                        !.w[w] = [NoWorker EXCEPT !.pc = "f", !.item = dp.w[w].item,
                                                  !.err = err, !.ran = TRUE]]
    /\ UNCHANGED <<tvars, dl, store, conn, cmd>>

\* A WithDownloader that puts the downloader back when f returned nil only
Return_f_KeepOnError(w, err) ==
    /\ dp.w[w].pc = "f"
    /\ err = "canceled" => dp.canceled
    /\ dp' = [dp EXCEPT !.pool = IF err = "nil" THEN Append(@, dp.w[w].item) ELSE @,
                        !.w[w].item = 0, !.w[w].err = err, !.w[w].pc = "check"]
    /\ UNCHANGED <<tvars, dl, store, conn, cmd>>

\* f(item) returns what downloadFn returns, which may be the error of the
\* cancelled context once that is cancelled; the deferred dp.pool <- item
Return_f(w, err) ==
    /\ dp.w[w].pc = "f"
    /\ err = "canceled" => dp.canceled
    /\ dp' = [dp EXCEPT !.pool = Append(@, dp.w[w].item), !.w[w].item = 0,
                        !.w[w].err = err, !.w[w].pc = "check"]
    /\ UNCHANGED <<tvars, dl, store, conn, cmd>>

\* if ctx.Err() != nil { return }; if err != nil { ... }; wg.Done()
Check(w) ==
    /\ dp.w[w].pc = "check"
    /\ dp' = [dp EXCEPT !.w[w].pc = IF dp.canceled THEN "done"
                                    ELSE IF dp.w[w].err # "nil" THEN "send"
                                    ELSE "done"]
    /\ UNCHANGED <<tvars, dl, store, conn, cmd>>

\* errCh <- err, which blocks while the channel holds dp.Size errors
Send(w) ==
    /\ dp.w[w].pc = "send"
    /\ Len(dp.errCh) < dp.Size
    /\ dp' = [dp EXCEPT !.errCh = Append(@, w), !.w[w].pc = "cancel"]
    /\ UNCHANGED <<tvars, dl, store, conn, cmd>>

\* cancel(); return
CancelBatch(w) ==
    /\ dp.w[w].pc = "cancel"
    /\ dp' = [dp EXCEPT !.canceled = TRUE, !.w[w].pc = "done"]
    /\ UNCHANGED <<tvars, dl, store, conn, cmd>>

\* wg.Wait() returns when every goroutine started is done; the select on
\* errCh; the deferred cancel()
Wait ==
    /\ dp.main = "wait"
    /\ \A w \in 1 .. dp.spawned : dp.w[w].pc = "done"
    /\ dp' = [dp EXCEPT !.main = "returned", !.canceled = TRUE,
                        !.ret = IF dp.errCh # <<>> THEN dp.w[Head(dp.errCh)].err
                                ELSE "nil"]
    /\ UNCHANGED <<tvars, dl, store, conn, cmd>>

-----------------------------------------------------------------------------
(* DownloaderCmd.ExecuteBody: one run of the example command *)

\* The organizations of a run
MaxOrgs == 2

\* ExecuteBody up to fn: the pool is built and begun; a Begin that fails
\* ends the run
ExecuteBody(v, cleanup, k) ==
    /\ cmd.pc = "off"
    /\ dp.main = "idle"
    /\ ~dp.started
    /\ k <= dp.Size
    /\ dp' = [dp EXCEPT !.started = TRUE,
                        !.pool = stats(@, dp.Size, k),
                        !.last = IF k = dp.Size THEN "nil" ELSE "stats error"]
    /\ cmd' = [cmd EXCEPT !.Version = v, !.Cleanup = cleanup,
                          !.pc = IF k = dp.Size THEN "listAllRepos" ELSE "returned",
                          !.err = IF k = dp.Size THEN "none" ELSE "stats error"]
    /\ UNCHANGED <<tvars, dl, store, conn>>

\* listAllRepos: listRepos for one organization after the other, each on a
\* downloader of the pool, until one fails (the one numbered bad, if any)
listAllRepos(orgs, bad) ==
    /\ cmd.pc = "listAllRepos"
    /\ bad <= orgs
    /\ dp' = [dp EXCEPT !.pool = stats(@, dp.Size,
                                       (IF bad = 0 THEN orgs ELSE bad) % dp.Size)]
    /\ cmd' = [cmd EXCEPT !.pc = IF bad = 0 THEN "downloadOrgs" ELSE "returned",
                          !.err = IF bad = 0 THEN "none" ELSE "error",
                          !.failed = bad # 0]
    /\ UNCHANGED <<tvars, dl, store, conn>>

\* downloadOrgs and downloadRepos call downloadParallel
downloadBatch(n) ==
    /\ cmd.pc \in {"downloadOrgs", "downloadRepos"}
    /\ downloadParallel(n)

\* A run that goes on whatever downloadParallel returned
Execute_IgnoreError ==
    /\ cmd.pc \in {"downloadOrgs", "downloadRepos"}
    /\ dp.main = "returned"
    /\ dp' = [dp EXCEPT !.main = "idle", !.params = 0, !.spawned = 0, !.canceled = FALSE,
                        !.errCh = <<>>, !.ret = "none", !.w = [i \in Workers |-> NoWorker]]
    /\ cmd' = [cmd EXCEPT !.pc = IF cmd.pc = "downloadOrgs" THEN "downloadRepos" ELSE "commit",
                          !.failed = @ \/ \E w \in Workers : dp.w[w].err # "nil"]
    /\ UNCHANGED <<tvars, dl, store, conn>>

\* downloadParallel has returned: fn returns its error, or goes on to the
\* repositories, or returns nil and ExecuteBody goes on to commit
Execute ==
    /\ cmd.pc \in {"downloadOrgs", "downloadRepos"}
    /\ dp.main = "returned"
    /\ dp' = [dp EXCEPT !.main = "idle", !.params = 0, !.spawned = 0, !.canceled = FALSE,
                        !.errCh = <<>>, !.ret = "none", !.w = [i \in Workers |-> NoWorker]]
    /\ cmd' = [cmd EXCEPT !.pc = IF dp.ret # "nil" THEN "returned"
                                 ELSE IF cmd.pc = "downloadOrgs" THEN "downloadRepos"
                                 ELSE "commit",
                          !.err = IF dp.ret # "nil" THEN dp.ret ELSE "none",
                          !.failed = @ \/ \E w \in Workers : dp.w[w].err # "nil"]
    /\ UNCHANGED <<tvars, dl, store, conn>>

\* c.commit(ctx, downloadersPool) with the options of the command
commitRun(c, n, m) ==
    /\ cmd.pc = "commit"
    /\ dl.kind # "commit"
    /\ commit(c, cmd.Version, cmd.Cleanup, n, m)

\* commit has returned: its error ends the run
Committed ==
    /\ cmd.pc = "commit"
    /\ dl.kind = "commit"
    /\ cmd' = [cmd EXCEPT !.pc = IF dl.res # "nil" THEN "returned" ELSE "End",
                          !.err = IF dl.res # "nil" THEN dl.res ELSE "none",
                          !.invoked = IF dl.invoked = "Cleanup"
                                      THEN {"SetCurrent", "Cleanup"} ELSE {"SetCurrent"}]
    /\ UNCHANGED <<tvars, dl, store, conn, dp>>

\* stats, err := downloadersPool.End(ctx), then stats.Elapsed and
\* stats.RatesUsage, whatever err is: of the nil that End returns with an
\* error this is a nil pointer dereference, and the program panics
EndRun(k) ==
    /\ cmd.pc = "End"
    /\ k <= dp.Size
    /\ dp' = [dp EXCEPT !.ended = TRUE,
                        !.pool = stats(@, dp.Size, k),
                        !.last = IF k = dp.Size THEN "nil" ELSE "stats error"]
    /\ cmd' = [cmd EXCEPT !.pc = IF k = dp.Size THEN "returned" ELSE "panicked",
                          !.stats = IF k = dp.Size THEN "stats" ELSE "nil",
                          !.err = IF k = dp.Size THEN "nil" ELSE "none"]
    /\ UNCHANGED <<tvars, dl, store, conn>>

-----------------------------------------------------------------------------
(* downloadConnection: the pagination of one connection *)

\* Pages the server holds of one connection
MaxChain == 3

\* The limit of the size of a page, but for pullRequests
defaultLimit == 100

\* connectionType.PageSize of the connections paginated here
PageSize(t) ==
    IF t = "pullRequests" THEN 50
    ELSE IF t = "issues" THEN 50
    ELSE 2

ConnectionTypes == {"pullRequests", "issues", "assignees"}

\* limit in downloadConnection
Limit(t) == IF t = "pullRequests" THEN PageSize(t) ELSE defaultLimit

\* getPerPage: how many resources to request, from the total number and the
\* number of those already downloaded
getPerPage_NoLimit(total, count, fallback, limit) ==
    IF total - count <= 0 THEN fallback ELSE total - count

getPerPage(total, count, fallback, limit) ==
    LET perPage == IF total - count > limit THEN limit ELSE total - count
    IN  IF perPage <= 0 THEN fallback ELSE perPage

\* res.GetPageInfo().HasNextPage, the condition of the loop
HasNextPage_Never(res) == FALSE

HasNextPage_Always(res) == TRUE

HasNextPage(res) == res.hasNext

\* What the server says of a page: res.Len(), res.GetTotalCount()
PageLens == {0, 50}
PageTotals == {0, 51, 200}

\* The pages of a connection as the server holds them: every page but the
\* last one has a next page, and the end cursor of the i-th page is i
Chains ==
    UNION { { [i \in 1 .. n |-> [len |-> f[i].len, total |-> f[i].total,
                                  hasNext |-> i < n, cursor |-> i]] :
                 f \in [1 .. n -> [len : PageLens, total : PageTotals]] } :
            n \in 1 .. MaxChain }

\* The page the server answers to a query for what follows a cursor
Serve(chain, cursor) ==
    IF cursor + 1 <= Len(chain) THEN chain[cursor + 1]
    ELSE [len |-> 0, total |-> 0, hasNext |-> FALSE, cursor |-> cursor + 1]

\* processed: the end cursors of the pages that process was called with;
\* queries: the variables of the queries sent, with the total and the count
\* they were computed from
NoConnection ==
    [pc |-> "off", t |-> "none", chain |-> <<>>,
     res |-> [len |-> 0, total |-> 0, hasNext |-> FALSE, cursor |-> 0],
     count |-> 0, page |-> 0, cursor |-> 0, processed |-> <<>>, queries |-> <<>>,
     err |-> "nil"]

\* downloadConnection is called with the first page, which came with the parent
StartConnection(t, chain) ==
    /\ conn.pc = "off"
    /\ conn' = [NoConnection EXCEPT !.pc = "process", !.t = t, !.chain = chain,
                                    !.res = chain[1], !.page = PageSize(t)]
    /\ UNCHANGED <<tvars, dl, store, dp, cmd>>

\* process(res)
ProcessPage(ok) ==
    /\ conn.pc = "process"
    /\ conn' = [conn EXCEPT !.processed = Append(@, conn.res.cursor),
                            !.pc = IF ok THEN "loop" ELSE "done",
                            !.err = IF ok THEN "nil" ELSE "ProcessError"]
    /\ UNCHANGED <<tvars, dl, store, dp, cmd>>

\* The head of the loop: leave it, or set the variables of the next query
NextPage ==
    /\ conn.pc = "loop"
    /\ IF HasNextPage(conn.res)
       THEN conn' = [conn EXCEPT
                !.pc = "query",
                !.count = @ + conn.res.len,
                !.page = getPerPage(conn.res.total, conn.count + conn.res.len,
                                    PageSize(conn.t), Limit(conn.t)),
                !.cursor = conn.res.cursor]
       ELSE conn' = [conn EXCEPT !.pc = "done"]
    /\ UNCHANGED <<tvars, dl, store, dp, cmd>>

\* d.client.Query(ctx, q, variables) and res = q.Connection()
QueryPage(ok) ==
    /\ conn.pc = "query"
    /\ conn' = [conn EXCEPT
            !.queries = Append(@, [page |-> conn.page, cursor |-> conn.cursor,
                                   total |-> conn.res.total, count |-> conn.count]),
            !.res = IF ok THEN Serve(conn.chain, conn.cursor) ELSE @,
            !.pc = IF ok THEN "process" ELSE "done",
            !.err = IF ok THEN "nil" ELSE "QueryError"]
    /\ UNCHANGED <<tvars, dl, store, dp, cmd>>

-----------------------------------------------------------------------------
(* The transport stack on its own *)

InitStack(requests) ==
    /\ req = requests
    /\ lockedUntil = 0
    /\ mutex = Free
    /\ pc = [c \in Callers |-> "idle"]
    /\ ctxDone = [c \in Callers |-> FALSE]
    /\ timer = [c \in Callers |-> 0]
    /\ attempts = [c \in Callers |-> 0]
    /\ numTries = [c \in Callers |-> 0]
    /\ currentInterval = [c \in Callers |-> initialInterval]
    /\ elapsed = [c \in Callers |-> 0]
    /\ lastOut = [c \in Callers |-> NoOut]
    /\ rlErr = [c \in Callers |-> "none"]
    /\ ret = [c \in Callers |-> "none"]
    /\ hist = HistInit

\* The requests have empty bodies
InitT == InitStack([c \in Callers |-> NoRequest])

Init ==
    /\ InitT
    /\ dl = NoDownload
    /\ store = NoStore
    /\ conn = NoConnection
    /\ dp = NoPool
    /\ cmd = NoCommand

\* The server holds an entity of some shape
InitD ==
    /\ InitT
    /\ \E sh \in Shapes : dl = [NoDownload EXCEPT !.shape = sh]
    /\ store = NoStore
    /\ conn = NoConnection
    /\ dp = NoPool
    /\ cmd = NoCommand

\* The steps of the stack when the requests get answers from outs after
\* latencies from lats
Steps(outs, lats) ==
    \/ \E c \in Single, lat \in lats : RoundTrip(c, lat)
    \/ \E c \in Single, lat \in lats : Wake(c, lat)
    \/ \E c \in Single, out \in outs : Response(c, out)
    \/ \E c \in Single, lat \in lats : BackoffDone(c, lat)
    \/ \E c \in Single : Cancel(c)
    \/ Tick

NextT == Steps(OutcomesT \cup {Resp(StatusOK, 0, 0, NoHeader, "json")}, LatenciesT)

NextL == Steps(OutcomesL, LatenciesL)

\* The answers and latencies the requests of a download get
OutcomesD ==
    { OK200,
      Resp(StatusUnauthorized, NoHeader, NoHeader, NoHeader, "json"),
      Resp(StatusOK, 0, 0, NoHeader, "json"),
      Resp(StatusForbidden, NoHeader, NoHeader, 1, "json") }

LatenciesD == {0}

NextD ==
    \/ \E c \in Single, kind \in Kinds, v \in {dl.n + 1}, ok \in BOOLEAN :
          Download(c, kind, "a", v, ok)
    \/ \E c \in Single, lat \in LatenciesD : Query(c, lat)
    \/ \E c \in Single : QueryDone(c)
    \/ \E c \in Single, ok \in BOOLEAN : SaveStep(c, ok)
    \/ \E c \in Single, ok \in BOOLEAN : Return(c, ok)
    \/ \E c \in Single, lat \in LatenciesD : Wake(c, lat)
    \/ \E c \in Single, out \in OutcomesD : Response(c, out)
    \/ \E c \in Single, lat \in LatenciesD : BackoffDone(c, lat)
    \/ \E c \in Single : Cancel(c)
    \/ Tick

SpecT == Init /\ [][NextT]_vars

SpecL == Init /\ [][NextL]_vars

SpecD == InitD /\ [][NextD]_vars

\* How many attempts of one request the server answers with a rate limit
MaxLimited == 3

\* Longest request body
MaxBody == 2

Bodies == UNION { [1 .. n -> {"q", "v"}] : n \in 0 .. MaxBody }

\* The requests a caller can hand to retryTransport.RoundTrip: a body of
\* which some bytes may have been read already
Requests ==
    { r \in [orig : {<<>>}, requestBodyContent : {<<>>},
             body : [bytes : Bodies, pos : 0 .. MaxBody]] : r.body.pos <= Len(r.body.bytes) }

InitB ==
    /\ \E r \in Requests :
           InitStack([c \in Callers |-> IF c \in Single THEN r ELSE NoRequest])
    /\ dl = NoDownload
    /\ store = NoStore
    /\ conn = NoConnection
    /\ dp = NoPool
    /\ cmd = NoCommand

\* The answers the attempts of a request with a body get
OutcomesB == {OK200, TransportErr("network"),
              Resp(StatusServerError, NoHeader, NoHeader, NoHeader, "json"),
              Resp(StatusOK, 0, 0, NoHeader, "json")}

NextB == Steps(OutcomesB, LatenciesL)

SpecB == InitB /\ [][NextB]_vars

\* The answers the attempts of two goroutines on one transport get
OutcomesM(c) ==
    IF attempts[c] <= MaxLimited
    THEN {OK200, Resp(StatusOK, 0, 0, NoHeader, "json")}
    ELSE {OK200}

\* Two goroutines send a request each through one RateLimitTransport
NextM ==
    \/ \E c \in Callers : attempts[c] = 0 /\ RoundTrip(c, 0)
    \/ \E c \in Callers : Lock(c, 0)
    \/ \E c \in Callers : Wake(c, 0)
    \/ \E c \in Callers : \E out \in OutcomesM(c) : Response(c, out)
    \/ \E c \in Callers : BackoffDone(c, 0)
    \/ Tick

SpecM == Init /\ [][NextM]_vars

\* The server holds one repository and two organizations, whose members
\* are the same users, and one page with one node of every connection
Entities(kind) == IF kind = "organization" THEN {"a", "b"} ELSE {"a"}
Versions == 0 .. MaxVersion

InitS ==
    /\ InitT
    /\ \E sh \in { x \in Shapes : x.pages = 1 /\ x.nodes = 1 } :
          dl = [NoDownload EXCEPT !.shape = sh]
    /\ store = NoStore
    /\ conn = NoConnection
    /\ dp = NoPool
    /\ cmd = NoCommand

\* Downloads of any entity with any version, which neither the server nor
\* the database fails, the promotion of a version and the cleanup, which
\* the database may fail, one call after the other
NextS ==
    \/ \E c \in Single, kind \in Kinds, v \in Versions :
          \E e \in Entities(kind) : Download(c, kind, e, v, TRUE)
    \/ \E c \in Single, lat \in LatenciesD : Query(c, lat)
    \/ \E c \in Single : Response(c, OK200)
    \/ \E c \in Single : QueryDone(c)
    \/ \E c \in Single : SaveStep(c, TRUE)
    \/ \E c \in Single : Return(c, TRUE)
    \/ \E c \in Single, v \in Versions, n \in StatementsOfSetActiveVersion :
          SetCurrent(c, v, n)
    \/ \E c \in Single, v \in Versions, n \in StatementsOfCleanup :
          DownloaderCleanup(c, v, n)

SpecS == InitS /\ [][NextS]_vars

\* Runs of the example command: downloads, then commit
NextC ==
    \/ \E c \in Single, kind \in {"repository"}, v \in Versions :
          \E e \in Entities(kind) : Download(c, kind, e, v, TRUE)
    \/ \E c \in Single, lat \in LatenciesD : Query(c, lat)
    \/ \E c \in Single : Response(c, OK200)
    \/ \E c \in Single : QueryDone(c)
    \/ \E c \in Single : SaveStep(c, TRUE)
    \/ \E c \in Single : Return(c, TRUE)
    \/ \E c \in Single, v \in Versions, cleanup \in BOOLEAN,
          n \in StatementsOfSetActiveVersion, m \in StatementsOfCleanup :
          commit(c, v, cleanup, n, m)

SpecC == InitS /\ [][NextC]_vars

\* A pool of any size, its lifecycle calls and one batch of downloads
InitW ==
    /\ InitT
    /\ dl = NoDownload
    /\ store = NoStore
    /\ conn = NoConnection
    /\ \E size \in 1 .. MaxClients : dp = NewDownloadersPool(size)
    /\ cmd = NoCommand

NextW ==
    \/ \E k \in 0 .. MaxClients : PoolBegin(k)
    \/ \E k \in 0 .. MaxClients : PoolEnd(k)
    \/ \E n \in 1 .. MaxParams : downloadParallel(n)
    \/ Go
    \/ Loop
    \/ \E w \in Workers : WithDownloader(w)
    \/ \E w \in Workers, err \in {"nil", "error", "canceled"} : Return_f(w, err)
    \/ \E w \in Workers : Check(w)
    \/ \E w \in Workers : Send(w)
    \/ \E w \in Workers : CancelBatch(w)
    \/ Wait

SpecW == InitW /\ [][NextW]_vars

\* The goroutines of a batch run on as long as one of them can
LiveW ==
    SpecW /\ WF_vars(\/ Go \/ Loop \/ Wait
                      \/ \E w \in Workers :
                            \/ WithDownloader(w) \/ Check(w) \/ Send(w) \/ CancelBatch(w)
                            \/ \E err \in {"nil", "error"} : Return_f(w, err))

\* A batch of downloads on a pool that was begun, each download step by
\* step on the store of its downloader with the lowest or the highest
\* version, up to the return of WithDownloader in every goroutine
NextF ==
    \/ PoolBegin(dp.Size)
    \/ \E n \in 1 .. MaxParams : dp.started /\ downloadParallel(n)
    \/ Go
    \/ Loop
    \/ \E w \in Workers : WithDownloader(w)
    \/ \E w \in Workers, v \in {0, MaxVersion}, ok \in BOOLEAN : Begin_f(w, v, ok)
    \/ \E w \in Workers : Save_f(w)
    \/ \E w \in Workers, err \in {"nil", "error"} : Deferred_f(w, err)
    \/ \E w \in Workers : dp.w[w].ran /\ Return_f(w, dp.w[w].err)

SpecF == InitW /\ [][NextF]_vars

\* A run of the example command on a pool of some size
NextX ==
    \/ \E v \in Versions, cleanup \in BOOLEAN, k \in 0 .. MaxClients :
          ExecuteBody(v, cleanup, k)
    \/ \E orgs \in 1 .. MaxOrgs, bad \in 0 .. MaxOrgs : listAllRepos(orgs, bad)
    \/ \E n \in 1 .. MaxParams : downloadBatch(n)
    \/ Go
    \/ Loop
    \/ \E w \in Workers : WithDownloader(w)
    \/ \E w \in Workers, err \in {"nil", "error", "canceled"} : Return_f(w, err)
    \/ \E w \in Workers : Check(w)
    \/ \E w \in Workers : Send(w)
    \/ \E w \in Workers : CancelBatch(w)
    \/ Wait
    \/ Execute
    \/ \E c \in Single, n \in StatementsOfSetActiveVersion, m \in StatementsOfCleanup :
          commitRun(c, n, m)
    \/ Committed
    \/ \E k \in 0 .. MaxClients : EndRun(k)

SpecX == InitW /\ [][NextX]_vars

\* The download of a repository by one process and one Cleanup by another,
\* on one database
NextG ==
    \/ \E c \in Single, v \in Versions :
          dl.pc = "off" /\ Download(c, "repository", "a", v, TRUE)
    \/ \E c \in Single, lat \in LatenciesD : Query(c, lat)
    \/ \E c \in Single : Response(c, OK200)
    \/ \E c \in Single : QueryDone(c)
    \/ \E c \in Single : SaveStep(c, TRUE)
    \/ \E c \in Single : Return(c, TRUE)
    \/ \E v \in Versions : CleanupCalled(v)
    \/ \E ok \in BOOLEAN : CleanupStatement(ok)

SpecG == InitS /\ [][NextG]_vars

\* Downloads whose every request the server answers with a 200
NextO ==
    \/ \E c \in Single, kind \in Kinds, v \in {dl.n + 1}, ok \in BOOLEAN :
          Download(c, kind, "a", v, ok)
    \/ \E c \in Single, lat \in LatenciesD : Query(c, lat)
    \/ \E c \in Single : Response(c, OK200)
    \/ \E c \in Single : QueryDone(c)
    \/ \E c \in Single, ok \in BOOLEAN : SaveStep(c, ok)
    \/ \E c \in Single, ok \in BOOLEAN : Return(c, ok)

SpecO == InitD /\ [][NextO]_vars

\* The pagination of connections of any type that the server holds in any way
NextP ==
    \/ \E t \in ConnectionTypes, chain \in Chains : StartConnection(t, chain)
    \/ \E ok \in BOOLEAN : ProcessPage(ok)
    \/ NextPage
    \/ \E ok \in BOOLEAN : QueryPage(ok)

SpecP == Init /\ [][NextP]_vars

-----------------------------------------------------------------------------
(* Properties of the transport stack *)

\* The step in which the underlying transport answers caller c
Answered(c) == pc[c] = "inflight" /\ pc'[c] # "inflight"

\* The step in which the request of caller c goes to the underlying transport
Forwarded(c) == pc[c] # "inflight" /\ pc'[c] = "inflight"

\* The response carries X-RateLimit-Remaining: 0 and a parseable reset time
CarriesReset(o) == o.err = "nil" /\ o.remaining = 0 /\ o.reset # NoHeader

\* C3: a request whose every attempt is answered with a 5xx is sent to the
\* inner transport exactly 11 times, never fewer and never more, and then
\* fails
C3_ElevenAttempts ==
    \A c \in Callers :
        hist.all5xx[c] =>
            /\ attempts[c] <= maxRetries + 1
            /\ (pc[c] = "idle" /\ ret[c] # "none") =>
                   (attempts[c] = maxRetries + 1 /\ ret[c] # "nil")

\* C4: once a 401 has answered a request, the request is not sent again and
\* the call returns an error
C4_NoRetryAfter401 ==
    \A c \in Callers :
        hist.first401[c] # 0 =>
            /\ pc[c] = "idle"
            /\ attempts[c] = hist.first401[c]
            /\ ret[c] \notin {"nil", "none"}

\* C5 as stated: whatever response carries X-RateLimit-Remaining: 0 and a
\* reset time R, the call returns ErrRateLimit at once and no request is
\* forwarded before R + 1s
C5_AnyStatus ==
    [][\A c \in Callers :
          /\ (Answered(c) /\ CarriesReset(lastOut'[c])) =>
                 (rlErr'[c] = "ErrRateLimit" /\ mutex' = Free /\ pc'[c] # "sleep")
          /\ Forwarded(c) => hist.resetSig.left = 0]_vars

\* C5 amended: when a response whose status is not 401 carries
\* X-RateLimit-Remaining: 0 and a reset time R, the call returns ErrRateLimit
\* at once and no request is forwarded before R + 1s
C5_LockUntilReset ==
    [][\A c \in Callers :
          /\ (/\ Answered(c)
              /\ CarriesReset(lastOut'[c])
              /\ lastOut'[c].status # StatusUnauthorized) =>
                 (rlErr'[c] = "ErrRateLimit" /\ mutex' = Free /\ pc'[c] # "sleep")
          /\ Forwarded(c) =>
                 (hist.resetSig.left = 0 \/ hist.resetSig.status = StatusUnauthorized)]_vars

\* A request is held back until the reset time, plus one second, of a
\* response that was no 401
C5_Witness ==
    \E c \in Callers :
        /\ pc[c] = "sleep"
        /\ hist.resetSig.left > 0
        /\ hist.resetSig.status # StatusUnauthorized
        /\ timer[c] = hist.resetSig.left

C8_CancelIsPermanent ==
    \A c \in Callers :
        lastOut[c].err = "Canceled" => (pc[c] = "idle" /\ ret[c] = "Canceled")

\* A retried request whose context was cancelled has returned
C8_Witness ==
    \E c \in Callers :
        /\ lastOut[c].err = "Canceled"
        /\ attempts[c] > 1
        /\ ret[c] = "Canceled"

\* C9: a call whose context is cancelled while it sleeps until lockedUntil
\* sleeps no longer and does not forward its request
C9_SleepInterrupted ==
    [][\A c \in Callers :
          (ctxDone[c] /\ pc[c] = "sleep" /\ timer[c] > 0) =>
              (/\ ~(pc'[c] = "sleep" /\ timer'[c] < timer[c])
               /\ pc'[c] # "inflight")]_vars

\* C10: a call whose context is cancelled while it waits between two
\* attempts waits no longer and makes no further attempt
C10_BackoffInterrupted ==
    [][\A c \in Callers :
          (ctxDone[c] /\ pc[c] = "backoff" /\ timer[c] > 0) =>
              (/\ ~(pc'[c] = "backoff" /\ timer'[c] < timer[c])
               /\ attempts'[c] = attempts[c])]_vars

-----------------------------------------------------------------------------
(* Properties of the downloads *)

\* The records that the save steps of a download save, each of them once
SavedBy(d) ==
    { RecordOf(d, i) : i \in { j \in DOMAIN PlanOf(d) : PlanOf(d)[j].op = "save" } }

\* The rows after every one of some records of different fingerprints was
\* added with version v
UpsertAll(rows, recs, v) ==
    { IF \E x \in recs : r.fp = sum256(x) THEN [r EXCEPT !.versions = Append(@, v)] ELSE r :
         r \in rows }
    \cup { [fp |-> sum256(x), versions |-> <<v>>, rec |-> x] :
              x \in { y \in recs : \A r \in rows : r.fp # sum256(y) } }

\* Some record was saved before step pos of the running download
SavedBefore(d) == \E i \in 1 .. (d.pos - 1) : i <= Len(PlanOf(d)) /\ PlanOf(d)[i].op = "save"

\* C1: every step of a download leaves the rows of the database as they are,
\* or it is the return of a download that went through all its steps and
\* adds every record of the entity, tagged with the download's version
C1_AllOrNothing ==
    [][\/ store.rows' = store.rows
       \/ /\ dl.pc = "return"
          /\ dl.pos = Len(PlanOf(dl)) + 1
          /\ store.rows' = UpsertAll(store.rows, SavedBy(dl), store.v)]_vars

\* A second download failed after it had saved records, and the database
\* holds the records of the first one only
C1_Witness ==
    /\ dl.pc = "done"
    /\ dl.n = 2
    /\ dl.failed
    /\ SavedBefore(dl)
    /\ store.rows # {}
    /\ \A r \in store.rows : r.versions = <<1>>

\* C2: a download that failed after Begin succeeded has called Rollback and
\* not Commit, and nothing is left of what it saved; one that has called
\* Commit went through all its steps
C2_RollbackOnFailure ==
    (dl.pc = "done" /\ dl.res # "BeginError") =>
        IF dl.failed
        THEN dl.invoked = "Rollback" /\ store.tx = "closed" /\ store.writes = <<>>
        ELSE dl.invoked = "Commit" /\ dl.pos = Len(PlanOf(dl)) + 1

\* A download was rolled back after a query, sent once records had been
\* saved, had used up its retries
C2_Witness ==
    /\ dl.pc = "done"
    /\ dl.invoked = "Rollback"
    /\ dl.qAttempts = maxRetries + 1
    /\ SavedBefore(dl)

\* C7 as stated: after a response for which the rate-limit interceptor
\* returns a rate-limit error, the call is over and has returned that error,
\* and the download is rolled back
C7_NoResend ==
    /\ \A c \in Callers :
           IsRateLimitErr(rlErr[c]) => (pc[c] = "idle" /\ ret[c] = rlErr[c])
    /\ (dl.pc = "done" /\ IsRateLimitErr(dl.qErr)) =>
           (dl.invoked = "Rollback" /\ dl.res = dl.qErr /\ store.writes = <<>>)

\* C7 amended: after such a response the retry interceptor waits to send the
\* request again, unless it has used up its retries or its time, and only
\* then has the call returned the rate-limit error; the download that gets
\* it is rolled back
C7_ResendUntilExhausted ==
    /\ \A c \in Callers :
           IsRateLimitErr(rlErr[c]) =>
               \/ pc[c] = "backoff"
               \/ /\ pc[c] = "idle"
                  /\ ret[c] = rlErr[c]
                  /\ (numTries[c] >= maxRetries \/ elapsed[c] > MaxElapsedTime)
    /\ (dl.pc = "done" /\ IsRateLimitErr(dl.qErr)) =>
           (dl.invoked = "Rollback" /\ dl.res = dl.qErr /\ store.writes = <<>>)

\* A download was rolled back with the rate-limit error that the eleventh
\* attempt of one of its queries got
C7_Witness ==
    /\ dl.pc = "done"
    /\ IsRateLimitErr(dl.qErr)
    /\ dl.qAttempts = maxRetries + 1
    /\ dl.invoked = "Rollback"

-----------------------------------------------------------------------------
(* Properties of the pagination *)

RECURSIVE Downloaded(_, _)
\* The number of resources on the first i pages of a chain
Downloaded(chain, i) == IF i = 0 THEN 0 ELSE chain[i].len + Downloaded(chain, i - 1)

\* C11: process is called once with every page, in the order of the server
\* and first with the page that was already loaded; every query carries the
\* end cursor of the page processed just before it; a call that returns nil
\* has processed every page; when the first page has no next page, no query
\* is sent
C11_OncePerPage ==
    conn.pc # "off" =>
        /\ Len(conn.processed) <= Len(conn.chain)
        /\ \A i \in DOMAIN conn.processed : conn.processed[i] = conn.chain[i].cursor
        /\ Len(conn.queries) <= Len(conn.processed)
        /\ \A i \in DOMAIN conn.queries : conn.queries[i].cursor = conn.processed[i]
        /\ (conn.pc = "done" /\ conn.err = "nil") =>
               /\ Len(conn.processed) = Len(conn.chain)
               /\ Len(conn.queries) = Len(conn.chain) - 1
        /\ ~conn.chain[1].hasNext => conn.queries = <<>>

\* A connection of three pages was downloaded with two queries
C11_Witness ==
    /\ conn.pc = "done"
    /\ conn.err = "nil"
    /\ Len(conn.chain) = 3
    /\ conn.processed = <<1, 2, 3>>
    /\ Len(conn.queries) = 2

\* C12 as stated: every query asks for min(T - C, limit) resources when
\* T - C >= 1 and for 1 resource when T - C <= 0, T the total count of the
\* page before and C the number of resources downloaded so far
C12_ClampToOne ==
    \A i \in DOMAIN conn.queries :
        LET T == conn.chain[i].total
            C == Downloaded(conn.chain, i)
        IN  conn.queries[i].page =
                IF T - C >= 1 THEN Min(T - C, Limit(conn.t)) ELSE 1

\* C12 amended: when T - C <= 0 the query asks for the configured page size
\* of the connection
C12_FallbackToPageSize ==
    \A i \in DOMAIN conn.queries :
        LET T == conn.chain[i].total
            C == Downloaded(conn.chain, i)
        IN  conn.queries[i].page =
                IF T - C >= 1 THEN Min(T - C, Limit(conn.t)) ELSE PageSize(conn.t)

\* One query was cut to the limit and another one fell back to the page size
C12_Witness ==
    /\ Len(conn.queries) = 2
    /\ conn.queries[1].total - conn.queries[1].count > Limit(conn.t)
    /\ conn.queries[1].page = Limit(conn.t)
    /\ conn.queries[2].total - conn.queries[2].count <= 0
    /\ conn.queries[2].page = PageSize(conn.t)

\* C13 as stated: when the first page reports a total count of 0, no query
\* is sent
C13_NoQueryWhenEmpty ==
    (conn.pc # "off" /\ conn.chain[1].total = 0) => conn.queries = <<>>

\* C13 amended: when the first page reports a total count of 0 and no next
\* page, no query is sent
C13_NoQueryWhenEmptyAndLast ==
    (conn.pc # "off" /\ conn.chain[1].total = 0 /\ ~conn.chain[1].hasNext) =>
        conn.queries = <<>>

\* The download of a connection with no resources and no next page returned
C13_Witness ==
    /\ conn.pc = "done"
    /\ conn.err = "nil"
    /\ conn.chain[1].total = 0
    /\ ~conn.chain[1].hasNext
    /\ conn.processed = <<1>>
    /\ conn.queries = <<>>

-----------------------------------------------------------------------------
(* Properties of the order of the saves *)

IsPrefix(s, t) == Len(s) <= Len(t) /\ s = SubSeq(t, 1, Len(s))

\* The kind and the place on the server of the records saved so far in the
\* transaction, of some kinds
SavedOf(kinds) ==
    LET saved == SelectSeq(store.writes, LAMBDA w : w.rec.kind \in kinds)
    IN  [i \in DOMAIN saved |-> <<saved[i].rec.kind>> \o saved[i].rec.id]

\* Every node of every page of a connection, in the order of the server
Nodes(sh) == Flatten([p \in 1 .. sh.pages |-> [n \in 1 .. sh.nodes |-> <<p, n>>]])

\* Issue after issue, each followed by its comments
IssueOrder(sh) ==
    Flatten([i \in DOMAIN Nodes(sh) |->
        <<<<"issue">> \o Nodes(sh)[i]>>
        \o [j \in DOMAIN Nodes(sh) |-> <<"issueComment">> \o Nodes(sh)[i] \o Nodes(sh)[j]]])

\* Pull request after pull request, each followed by its comments and then
\* by its reviews, each review followed by its comments
PullRequestOrder(sh) ==
    Flatten([i \in DOMAIN Nodes(sh) |->
        <<<<"pullRequest">> \o Nodes(sh)[i]>>
        \o [j \in DOMAIN Nodes(sh) |->
               <<"pullRequestComment">> \o Nodes(sh)[i] \o Nodes(sh)[j]]
        \o Flatten([j \in DOMAIN Nodes(sh) |->
               <<<<"review">> \o Nodes(sh)[i] \o Nodes(sh)[j]>>
               \o [k \in DOMAIN Nodes(sh) |->
                      <<"reviewComment">> \o Nodes(sh)[i] \o Nodes(sh)[j] \o Nodes(sh)[k]]])])

\* The steps right before step pos were the queries for all further pages of
\* the assignees and then those for all further pages of the labels
NamesFetched(d) ==
    /\ d.pos > 2 * (d.shape.pages - 1)
    /\ \A j \in 1 .. (d.shape.pages - 1) :
          /\ PlanOf(d)[d.pos - j] = Q("labels")
          /\ PlanOf(d)[d.pos - (d.shape.pages - 1) - j] = Q("assignees")

\* The download of a repository is running
Running(d) == d.kind = "repository" /\ d.pc \in {"step", "query", "return"}

\* The next step of the download saves a record of some kind
About(d, kind) ==
    /\ d.pc = "step"
    /\ PlanOf(d)[d.pos].op = "save"
    /\ Head(PlanOf(d)[d.pos].what) = kind

C15_PullRequestOrder ==
    Running(dl) =>
        /\ IsPrefix(SavedOf({"pullRequest", "pullRequestComment", "review", "reviewComment"}),
                    PullRequestOrder(dl.shape))
        /\ About(dl, "pullRequest") => NamesFetched(dl)
        /\ (dl.pc = "return" /\ dl.err = "nil") =>
               SavedOf({"pullRequest", "pullRequestComment", "review", "reviewComment"})
                   = PullRequestOrder(dl.shape)

\* A download is about to return nil after it saved the pull requests of two
\* pages with their comments, reviews and review comments
C15_Witness ==
    /\ Running(dl)
    /\ dl.pc = "return"
    /\ dl.err = "nil"
    /\ dl.shape.pages = 2
    /\ dl.shape.nodes = 1
    /\ Len(SavedOf({"pullRequest", "pullRequestComment", "review", "reviewComment"})) = 18

-----------------------------------------------------------------------------
(* Properties of the versioned rows *)

\* How often a version is in the versions of a row
Count(v, versions) == Cardinality({ i \in DOMAIN versions : versions[i] = v })

Fingerprints(rows) == { r.fp : r \in rows }

\* The database holds every record of the repository that is about to be
\* committed, with the version of this download once: a download of the
\* same data with the same version was committed before
RanBefore ==
    /\ dl.kind = "repository"
    /\ dl.pc = "return"
    /\ dl.err = "nil"
    /\ \A rec \in SavedBy(dl) :
          \E r \in store.rows : r.rec = rec /\ Count(store.v, r.versions) = 1

\* The second of two downloads of the same data with the same version commits
SecondCommit == RanBefore /\ \E c \in Callers : Return(c, TRUE)

\* C16 as stated: the second run leaves the database as it was, each row
\* with the version once
C16_SecondRunChangesNothing ==
    [][SecondCommit => store.rows' = store.rows]_vars

\* C16: the second run of a repository download with the same version adds
\* no row, appends the version once more to the versions of every row it
\* saves, leaves the other rows as they are, and every view shows what it
\* showed before
C16_SecondRunAppendsVersion ==
    [][SecondCommit =>
          /\ Fingerprints(store.rows') = Fingerprints(store.rows)
          /\ \A r \in store.rows :
                IF r.rec \in SavedBy(dl)
                THEN [r EXCEPT !.versions = Append(@, store.v)] \in store.rows'
                ELSE r \in store.rows'
          /\ \A r \in store.rows' :
                r.rec \in SavedBy(dl) => Count(store.v, r.versions) = 2
          /\ \A i \in DOMAIN tables : Select(store', i) = Select(store, i)]_vars

\* Two downloads of a repository with issues and the same version were
\* committed, the views are there, and a row has the version twice
C16_Witness ==
    /\ dl.pc = "done"
    /\ dl.kind = "repository"
    /\ dl.invoked = "Commit"
    /\ dl.n = 2
    /\ dl.shape.nodes > 0
    /\ \E i \in DOMAIN tables : Select(store, i) # {}
    /\ \A r \in store.rows : r.versions = <<store.v, store.v>>

\* What the view of the table of a record shows once SetActiveVersion(v)
\* has succeeded
ViewFor(st, v, rec) ==
    Select([st EXCEPT !.views = SetActiveVersion(@, v, Len(tables))],
           CHOOSE i \in DOMAIN tables : tables[i] = TableOf(rec.kind))

\* The rows that hold a record
RowsOf(rows, rec) == { r \in rows : r.rec = rec }

\* C17: when a download commits a record that the database holds with some
\* version, the table holds one row of it afterwards, the row it held,
\* whose versions have that version and the version of the download, and
\* the view shows the record for the one version and for the other
C17_OneRowTwoVersions ==
    [][(dl.pc = "return" /\ dl.err = "nil" /\ \E c \in Callers : Return(c, TRUE)) =>
          \A rec \in SavedBy(dl) : \A r \in RowsOf(store.rows, rec) :
             \A v1 \in { r.versions[i] : i \in DOMAIN r.versions } :
                /\ Cardinality(RowsOf(store.rows', rec)) = 1
                /\ \A x \in RowsOf(store.rows', rec) :
                      /\ x.fp = r.fp
                      /\ AnyOf(v1, x.versions)
                      /\ AnyOf(store.v, x.versions)
                /\ rec \in ViewFor(store', v1, rec)
                /\ rec \in ViewFor(store', store.v, rec)]_vars

\* A download with version 1 was committed after one with version 0, and
\* the rows of the database have both versions
C17_Witness ==
    /\ dl.pc = "done"
    /\ dl.invoked = "Commit"
    /\ dl.n = 2
    /\ store.rows # {}
    /\ \A r \in store.rows : r.versions = <<0, 1>>

\* C18: a record saved in the transaction that differs from the record of
\* a row of the database, be it in the id-context alone, has another
\* fingerprint than that row
C18_FingerprintCoversRecord ==
    \A i \in DOMAIN store.writes : \A r \in store.rows :
        store.writes[i].rec # r.rec => sum256(store.writes[i].rec) # r.fp

\* C19: once SetActiveVersion has returned nil, and whatever downloads and
\* cleanups do to the rows afterwards, each of the eight views shows the
\* rows of its table that have the version in their versions, and no other
C19_ViewsShowActiveVersion ==
    store.active.set =>
        \A i \in DOMAIN tables :
            Select(store, i) =
                { r.rec : r \in { x \in store.rows :
                                    /\ TableOf(x.rec.kind) = tables[i]
                                    /\ \E j \in DOMAIN x.versions :
                                          x.versions[j] = store.active.v } }

\* A version was made the active one, a download was committed after that,
\* and the database has rows with the active version and rows without it
C19_Witness ==
    /\ store.active.set
    /\ dl.pc = "done"
    /\ dl.kind = "repository"
    /\ dl.invoked = "Commit"
    /\ dl.shape.nodes > 0
    /\ \E r \in store.rows : AnyOf(store.active.v, r.versions)
    /\ \E r \in store.rows : ~AnyOf(store.active.v, r.versions)

\* C20: when Cleanup returns nil, a row is left of every row that had the
\* version in its versions and of no other, with the columns it had; the
\* rows left have this version alone; and no row is left when no row had it
C20_CleanupKeepsVersion ==
    [][\A c \in Callers, v \in Versions :
          (dl'.kind = "Cleanup" /\ DownloaderCleanup(c, v, 2 * Len(tables))) =>
             /\ \A r \in store.rows :
                   (\E x \in store.rows' : x.fp = r.fp /\ x.rec = r.rec)
                       <=> (\E j \in DOMAIN r.versions : r.versions[j] = v)
             /\ \A x \in store.rows' :
                   /\ x.versions = <<v>>
                   /\ \E r \in store.rows : r.fp = x.fp
             /\ (\A r \in store.rows : \A j \in DOMAIN r.versions : r.versions[j] # v)
                   => store.rows' = {}]_vars

\* Cleanup has returned nil after it deleted rows and left others, which
\* have its version alone
C20_Witness ==
    /\ dl.pc = "done"
    /\ dl.kind = "Cleanup"
    /\ dl.res = "nil"
    /\ dl.deleted > 0
    /\ store.rows # {}
    /\ \A r \in store.rows : r.versions = <<dl.arg>>

-----------------------------------------------------------------------------
(* Properties of the example command *)

\* C21: commit calls Cleanup if and only if the cleanup option is on and
\* SetActiveVersion has returned nil for the same version; and no row it
\* deletes is one that a view shows after the promotion
C21_CleanupAfterPromotion ==
    [][\A c \in Callers, v \in Versions, cleanup \in BOOLEAN,
          n \in StatementsOfSetActiveVersion, m \in StatementsOfCleanup :
          (dl'.kind = "commit" /\ commit(c, v, cleanup, n, m)) =>
             /\ dl'.invoked = "Cleanup" <=> (cleanup /\ n = Len(tables))
             /\ dl'.invoked = "Cleanup" => (store'.active.set /\ store'.active.v = v)
             /\ dl'.invoked # "Cleanup" => store.rows' = store.rows
             /\ \A r \in store.rows :
                   (\A x \in store.rows' : x.fp # r.fp) =>
                      \A i \in DOMAIN tables :
                         r.rec \notin Select([store EXCEPT !.views = store'.views], i)]_vars

\* commit has promoted a version and its Cleanup has deleted rows and left
\* others, which the views show
C21_Witness ==
    /\ dl.pc = "done"
    /\ dl.kind = "commit"
    /\ dl.invoked = "Cleanup"
    /\ dl.res = "nil"
    /\ dl.deleted > 0
    /\ \E i \in DOMAIN tables : Select(store, i) # {}

\* C22: when the download of a repository is committed, the view
\* issue_comments of its version shows, for this repository, as many rows
\* as the server has comments of issues and comments of pull requests; the
\* rows of both are in issue_comments_versioned and the view
\* pull_request_comments shows none of them
C22_CommentsInOneTable ==
    [][(dl.pc = "return" /\ dl.kind = "repository" /\ dl.err = "nil" /\ dl'.pc = "done"
          /\ \E c \in Callers : Return(c, TRUE)) =>
          LET promoted == [store' EXCEPT !.views = SetActiveVersion(@, store.v, Len(tables))]
              shown(t) == Select(promoted, CHOOSE i \in DOMAIN tables : tables[i] = t)
              nodes == dl.shape.pages * dl.shape.nodes
          IN  /\ Cardinality({ rec \in shown("issue_comments_versioned") :
                                  rec.ctx = dl.entity })
                    = nodes * nodes + nodes * nodes
              /\ \A r \in store.rows' :
                    r.rec.kind \in {"issueComment", "pullRequestComment"} =>
                       /\ r \in From(store.rows', "issue_comments_versioned")
                       /\ r.rec \in shown("issue_comments_versioned")
                       /\ r.rec \notin shown("pull_request_comments_versioned")]_vars

\* The download of a repository with two pages of issues and of pull
\* requests was committed, and issue_comments_versioned holds the four
\* comments of the issues and the four of the pull requests
C22_Witness ==
    /\ dl.pc = "done"
    /\ dl.kind = "repository"
    /\ dl.invoked = "Commit"
    /\ dl.shape.pages = 2
    /\ dl.shape.nodes = 1
    /\ Cardinality({ r \in From(store.rows, "issue_comments_versioned") :
                        r.rec.kind = "issueComment" }) = 4
    /\ Cardinality({ r \in From(store.rows, "issue_comments_versioned") :
                        r.rec.kind = "pullRequestComment" }) = 4

-----------------------------------------------------------------------------
(* Properties of the pool and of the parallel batch *)

\* The place of the pool in its lifecycle
Lifecycle(d) ==
    IF d.ended THEN "ended" ELSE IF d.started THEN "active" ELSE "uninitialized"

\* WithDownloader runs its function on an active pool and on no other, where
\* it returns an error
WithDownloaderWhenActive ==
    \A w \in Workers :
        WithDownloader(w) =>
            IF Lifecycle(dp) = "active"
            THEN dp'.w[w].pc = "f"
            ELSE dp'.w[w].pc = "check" /\ dp'.w[w].err # "nil" /\ dp'.pool = dp.pool

\* C23 as stated: Begin returns nil on an uninitialized pool, which is
\* active then, and End on an active pool, which is ended then; every
\* other call of them returns an error and leaves the state as it is
C23_ErrorLeavesState ==
    [][/\ WithDownloaderWhenActive
       /\ \A k \in 0 .. MaxClients :
             /\ PoolBegin(k) =>
                   IF dp'.last = "nil"
                   THEN Lifecycle(dp) = "uninitialized" /\ Lifecycle(dp') = "active"
                   ELSE Lifecycle(dp') = Lifecycle(dp)
             /\ PoolEnd(k) =>
                   IF dp'.last = "nil"
                   THEN Lifecycle(dp) = "active" /\ Lifecycle(dp') = "ended"
                   ELSE Lifecycle(dp') = Lifecycle(dp)]_vars

\* C23: Begin returns nil on an uninitialized pool only and End on an active
\* pool only; called on a pool in another state they return an error and
\* leave the state; Begin makes an uninitialized pool active and End an
\* active pool ended, also when they return the error of the statistics
C23_Lifecycle ==
    [][/\ WithDownloaderWhenActive
       /\ \A k \in 0 .. MaxClients :
             /\ PoolBegin(k) =>
                   /\ dp'.last = "nil" => Lifecycle(dp) = "uninitialized"
                   /\ Lifecycle(dp) # "uninitialized" =>
                         (dp'.last # "nil" /\ Lifecycle(dp') = Lifecycle(dp))
                   /\ Lifecycle(dp) = "uninitialized" =>
                         /\ Lifecycle(dp') = "active"
                         /\ dp'.last = "nil" <=> k = dp.Size
             /\ PoolEnd(k) =>
                   /\ dp'.last = "nil" => Lifecycle(dp) = "active"
                   /\ Lifecycle(dp) # "active" =>
                         (dp'.last # "nil" /\ Lifecycle(dp') = Lifecycle(dp))
                   /\ Lifecycle(dp) = "active" =>
                         /\ Lifecycle(dp') = "ended"
                         /\ dp'.last = "nil" <=> k = dp.Size]_vars

\* End has returned the error of the statistics after a batch in which a
\* function ran, and the pool is ended
C23_Witness ==
    /\ Lifecycle(dp) = "ended"
    /\ dp.last = "stats error"
    /\ dp.main = "returned"
    /\ \E w \in Workers : dp.w[w].pc = "done" /\ dp.w[w].err = "nil"

\* C24: no more functions run inside WithDownloader than the pool has
\* downloaders; the downloaders they run on are different ones and are not
\* in the channel; every downloader is in the channel or with the function
\* that runs on it, so that a goroutine gets one only when one is free and
\* every one is back when its function has returned
C24_OneWorkerPerClient ==
    LET running == { w \in Workers : dp.w[w].pc = "f" }
    IN  /\ Cardinality(running) <= dp.Size
        /\ \A w \in running :
              /\ dp.w[w].item \in 1 .. dp.Size
              /\ \A i \in DOMAIN dp.pool : dp.pool[i] # dp.w[w].item
              /\ \A x \in running : x # w => dp.w[x].item # dp.w[w].item
        /\ \A w \in Workers \ running : dp.w[w].item = 0
        /\ Len(dp.pool) + Cardinality(running) = dp.Size
        /\ \A i, j \in DOMAIN dp.pool : i # j => dp.pool[i] # dp.pool[j]

\* A function runs on every downloader of the pool, one of which was put
\* back by a function that failed, and another goroutine waits for one
C24_Witness ==
    /\ Cardinality({ w \in Workers : dp.w[w].pc = "f" }) = dp.Size
    /\ dp.pool = <<>>
    /\ \E w \in Workers : dp.w[w].pc = "WithDownloader"
    /\ \E w \in Workers : dp.w[w].pc \in {"check", "send"} /\ dp.w[w].err = "error"

\* C25: a batch that was started returns
C25_BatchReturns == (dp.main = "go") ~> (dp.main = "returned")

-----------------------------------------------------------------------------
(* RateLimitTransport under concurrent callers *)

\* The callers that are past rt.Lock() and have not yet returned
InRoundTrip == { c \in Callers : pc[c] \in {"sleep", "inflight"} }

\* C26: on one RateLimitTransport at most one call is between rt.Lock() and
\* its return, and it holds the mutex; so at most one request is in flight
\* in the underlying transport
C26_MutualExclusion ==
    /\ Cardinality(InRoundTrip) <= 1
    /\ \A c \in InRoundTrip : mutex = c
    /\ Cardinality({ c \in Callers : pc[c] = "inflight" }) <= 1

\* The request of one goroutine is in flight while the other waits in
\* rt.Lock()
C26_Witness ==
    \E c, o \in Callers :
        /\ pc[c] = "inflight"
        /\ mutex = c
        /\ pc[o] = "lock"

-----------------------------------------------------------------------------
(* retryTransport and the body of the request *)

\* C27: whenever retryTransport has handed the request to the inner
\* transport, for the first attempt and for every retry, the body of the
\* request is a reader at its start over exactly the bytes the body of the
\* original request held
C27_SameBodyEachAttempt ==
    \A c \in Callers :
        pc[c] \in {"lock", "sleep", "inflight"} =>
            req[c].body = [bytes |-> req[c].orig, pos |-> 0]

\* A retry is with the inner transport, with the whole of a body of two
\* bytes of which the caller had read the first
C27_Witness ==
    \E c \in Callers :
        /\ pc[c] = "inflight"
        /\ attempts[c] > 1
        /\ Len(req[c].orig) = 1
        /\ req[c].body = [bytes |-> req[c].orig, pos |-> 0]

-----------------------------------------------------------------------------
(* RateLimitTransport: the deadline it records *)

\* The transport answers caller c with a 403 that carries Retry-After, and
\* RateLimitTransport makes an ErrAbuseRateLimit of it
AbuseWithRetryAfter(c) ==
    /\ Answered(c)
    /\ lastOut'[c].err = "nil"
    /\ lastOut'[c].status = StatusForbidden
    /\ lastOut'[c].retryAfter # NoHeader
    /\ rlErr'[c] = "ErrAbuseRateLimit"

\* C28 as stated: after a 403 abuse response with Retry-After: N,
\* lockedUntil is now + max(N seconds, default abuse sleep), so never
\* earlier than now + the default abuse sleep
C28_AtLeastDefault ==
    [][\A c \in Callers :
          AbuseWithRetryAfter(c) =>
              /\ lockedUntil' = Max(lastOut'[c].retryAfter * Second, defaultAbuseRetryAfter)
              /\ lockedUntil' >= defaultAbuseRetryAfter]_vars

\* C28 amended: after a 403 abuse response with Retry-After: N, lockedUntil
\* is now + N seconds, also when that is earlier than now + the default
\* abuse sleep; the default is the deadline only of a 403 without a
\* Retry-After that parses
C28_RetryAfterAsGiven ==
    [][\A c \in Callers :
          /\ AbuseWithRetryAfter(c) => lockedUntil' = lastOut'[c].retryAfter * Second
          /\ (/\ Answered(c)
              /\ rlErr'[c] = "ErrAbuseRateLimit"
              /\ lastOut'[c].retryAfter = NoHeader) =>
                 lockedUntil' = defaultAbuseRetryAfter]_vars

\* A 403 with Retry-After: 1 was answered with ErrAbuseRateLimit and the
\* deadline is now + 1s, before now + the default abuse sleep
C28_Witness ==
    \E c \in Callers :
        /\ rlErr[c] = "ErrAbuseRateLimit"
        /\ lastOut[c].retryAfter = 1
        /\ lockedUntil = Second
        /\ lockedUntil < defaultAbuseRetryAfter

\* The transport answers caller c with a 403 that has no Retry-After that
\* parses and no abuse message in its body
PlainForbidden(c) ==
    /\ Answered(c)
    /\ lastOut'[c].err = "nil"
    /\ lastOut'[c].status = StatusForbidden
    /\ lastOut'[c].retryAfter = NoHeader
    /\ lastOut'[c].body \notin {"abuse", "abuse_text"}

\* The call of caller c returns the response with no error and the deadline
\* is as it was, and not in the future
PassedThrough(c) ==
    /\ rlErr'[c] = "nil"
    /\ ret'[c] = "nil"
    /\ pc'[c] = "idle"
    /\ lockedUntil' = lockedUntil
    /\ lockedUntil' = 0

\* C29 as stated: a 403 with neither a Retry-After that parses nor an abuse
\* message in its body is returned with no error, leaves lockedUntil as it
\* was and does not delay the next request
C29_Any403 ==
    [][\A c \in Callers : PlainForbidden(c) => PassedThrough(c)]_vars

\* C29 amended: the same of a 403 that does not carry
\* X-RateLimit-Remaining: 0 with a reset time either
C29_PlainForbiddenPasses ==
    [][\A c \in Callers :
          (PlainForbidden(c) /\ ~CarriesReset(lastOut'[c])) => PassedThrough(c)]_vars

\* A call has returned a 403 without headers and without an abuse message,
\* with no error, and no deadline is pending
C29_Witness ==
    \E c \in Callers :
        /\ pc[c] = "idle"
        /\ ret[c] = "nil"
        /\ rlErr[c] = "nil"
        /\ lastOut[c] = Resp(StatusForbidden, NoHeader, NoHeader, NoHeader, "json")
        /\ lockedUntil = 0

\* C30: a request that gets the transport when the deadline has passed is
\* forwarded without sleeping, one that gets it before the deadline sleeps
\* until the deadline and no longer, and a rate-limit response sets a
\* deadline of its own, which holds back the requests after it
C30_LockDelaysOnlyBeforeDeadline ==
    [][\A c \in Callers :
          /\ (pc[c] \notin {"sleep", "inflight"} /\ pc'[c] = "inflight") => lockedUntil = 0
          /\ (pc[c] # "sleep" /\ pc'[c] = "sleep") =>
                 (lockedUntil > 0 /\ timer'[c] = lockedUntil)
          /\ (pc[c] = "sleep" /\ pc'[c] = "inflight") => lockedUntil = 0
          /\ (Answered(c) /\ IsRateLimitErr(rlErr'[c])) =>
                 (lockedUntil = 0 /\ lockedUntil' >= Second)]_vars

\* A request that was held back by one deadline and answered with another
\* rate limit is sent again, after that deadline passed, without sleeping
C30_Witness ==
    \E c \in Callers :
        /\ pc[c] = "inflight"
        /\ attempts[c] > 2
        /\ ~hist.slept[c]
        /\ lockedUntil = 0

\* C31: when the underlying transport returns an error, RateLimitTransport
\* returns that error as it is, and lockedUntil stays as it was, so that
\* the next request is not held back
C31_TransportErrorPassesThrough ==
    [][\A c \in Callers :
          (Answered(c) /\ lastOut'[c].err # "nil") =>
              /\ rlErr'[c] = lastOut'[c].err
              /\ ~IsRateLimitErr(rlErr'[c])
              /\ lockedUntil' = lockedUntil
              /\ lockedUntil' = 0]_vars

\* The transport has failed a request and RateLimitTransport has returned
\* its error; the request waits to be sent again and no deadline is pending
C31_Witness ==
    \E c \in Callers :
        /\ lastOut[c].err = "network"
        /\ rlErr[c] = "network"
        /\ pc[c] = "backoff"
        /\ lockedUntil = 0

-----------------------------------------------------------------------------
(* retryTransport: how the loop ends *)

\* What do made of the last attempt of caller c
LastAttempt(c) == do(rlErr[c], lastOut[c].status)

\* C32: when retryTransport.RoundTrip has returned, the last attempt
\* succeeded and nil is returned, or it failed with a permanent error and
\* that error is returned, or it was attempt number maxRetries + 1 and its
\* error is returned
C32_LoopEnds ==
    \A c \in Callers :
        (pc[c] = "idle" /\ ret[c] # "none") =>
            \/ LastAttempt(c).kind = "nil" /\ ret[c] = "nil" /\ lastOut[c].err = "nil"
            \/ LastAttempt(c).kind = "permanent" /\ ret[c] = LastAttempt(c).err
            \/ /\ LastAttempt(c).kind = "transient"
               /\ attempts[c] = maxRetries + 1
               /\ ret[c] = LastAttempt(c).err

-----------------------------------------------------------------------------
(* Downloads and the end of their transaction *)

\* C34: a download returns nil only if the Commit of its transaction
\* succeeded: the step in which it returns nil is not one in which the
\* database failed the Commit
C34_NilOnlyAfterCommit ==
    [][\A c \in Callers :
          (dl.pc = "return" /\ dl'.pc = "done" /\ dl'.res = "nil") => ~Return(c, FALSE)]_vars

-----------------------------------------------------------------------------
(* downloadParallel: the end of the goroutines *)

\* C33: no goroutine of downloadParallel is left blocked in errCh <- err:
\* there is no state in which one waits to send into the full channel
\* while the others are done and the main goroutine is in wg.Wait()
C33_NoSenderBlockedForever ==
    ~ \E w \in 1 .. dp.spawned :
          /\ dp.w[w].pc = "send"
          /\ Len(dp.errCh) = dp.Size
          /\ dp.main = "wait"
          /\ \A o \in 1 .. dp.spawned : dp.w[o].pc \in {"send", "done"}

-----------------------------------------------------------------------------
(* The run of the example command *)

\* C35: in a run, commit (SetCurrent and Cleanup) is called only after
\* every listing and every download has returned nil; a run in which one
\* of them failed changes no view, deletes no row, and returns an error
C35_CommitOnlyAfterSuccess ==
    /\ (cmd.pc # "off" /\ dl.kind = "commit") =>
           (~cmd.failed /\ cmd.pc \in {"commit", "End", "returned", "panicked"})
    /\ cmd.failed =>
           /\ dl.kind # "commit"
           /\ cmd.invoked = {}
           /\ store = NoStore
           /\ cmd.pc = "returned"
           /\ cmd.err \notin {"nil", "none"}

\* A run whose listings and downloads all returned nil has called SetCurrent
\* and Cleanup
C35_Witness ==
    /\ cmd.invoked = {"SetCurrent", "Cleanup"}
    /\ ~cmd.failed
    /\ store.active.set
    /\ store.active.v = cmd.Version

\* C39: when End fails, ExecuteBody still returns, nil or an error, and
\* reads no statistics that End did not produce
C39_EndErrorIsHarmless ==
    /\ cmd.pc # "panicked"
    /\ (cmd.pc = "returned" /\ dp.ended) => (cmd.stats = "stats" \/ cmd.err # "nil")

-----------------------------------------------------------------------------
(* Rows of a version that was not promoted *)

\* The step in which a download commits its rows
CommitsRows == dl.pc = "return" /\ dl'.pc = "done" /\ dl'.invoked = "Commit"

\* Every view shows after the step what it showed before
ViewsUnchanged == \A i \in DOMAIN tables : Select(store', i) = Select(store, i)

\* C36 as stated: the rows a download commits are not visible through the
\* views as long as no promotion follows, as in a run that ends in failure,
\* whatever the version of the run, the active one included
C36_NeverVisible ==
    [][CommitsRows => ViewsUnchanged]_vars

\* C36 amended: the same for every version of the run with which no view
\* was created
C36_InvisibleUnlessVersionActive ==
    [][(/\ CommitsRows
        /\ \A i \in DOMAIN tables :
              ~(store.views[i].exists /\ store.views[i].v = store.v)) =>
           ViewsUnchanged]_vars

\* A download has committed rows of a version that is not the active one;
\* the views show rows, and none that has this version alone
C36_Witness ==
    /\ dl.pc = "done"
    /\ dl.invoked = "Commit"
    /\ store.active.set
    /\ store.active.v # store.v
    /\ \E i \in DOMAIN tables : Select(store, i) # {}
    /\ \E r \in store.rows :
          /\ r.versions = <<store.v>>
          /\ \A i \in DOMAIN tables : r.rec \notin Select(store, i)


\* C37 as first stated: at every moment the eight views are of one version,
\* none of them of a version that another is not of
C37_AllViewsSameVersion ==
    \A i, j \in DOMAIN tables :
        /\ store.views[i].exists = store.views[j].exists
        /\ store.views[i].v = store.views[j].v

\* C37: SetCurrent replaces the views one statement after the other: when
\* the first n statements succeed, the views of the first n tables are of
\* the new version and the others are what they were; it returns nil when
\* all eight succeeded and only then, and then the eight views are of the
\* new version
C37_PromotionViewByView ==
    [][\A c \in Callers, v \in Versions, n \in StatementsOfSetActiveVersion :
          (dl'.kind = "SetCurrent" /\ SetCurrent(c, v, n)) =>
             /\ \A i \in DOMAIN tables :
                   IF i <= n
                   THEN store'.views[i].exists /\ store'.views[i].v = v
                   ELSE store'.views[i] = store.views[i]
             /\ dl'.res = "nil" <=> n = Len(tables)
             /\ dl'.res = "nil" =>
                   \A i \in DOMAIN tables :
                       store'.views[i].exists /\ store'.views[i].v = v]_vars

\* SetCurrent has returned an error and left views of two versions
C37_Witness ==
    /\ dl.pc = "done"
    /\ dl.kind = "SetCurrent"
    /\ dl.res = "SetCurrentError"
    /\ \E i, j \in DOMAIN tables :
          /\ store.views[i].exists /\ store.views[j].exists
          /\ store.views[i].v = dl.arg
          /\ store.views[j].v # dl.arg


\* C38: a statement of Cleanup gives a row the version of the call alone
\* only when the row had this version among its versions
C38_TagsOnlyRowsOfVersion ==
    [][(cmd.pc = "Cleanup" /\ cmd' # cmd) =>
          \A x \in store'.rows \ store.rows :
              \E r \in store.rows : /\ r.fp = x.fp
                                    /\ AnyOf(cmd.Version, r.versions)]_vars


\* C40: the store of a downloader has one open transaction at most; while
\* a download is between its Begin and its deferred Commit or Rollback, the
\* transaction and the version of its store are the ones this download
\* set; and each of its Saves ran on this transaction with this version
C40_OneTransactionPerStore ==
    /\ \A i \in 1 .. dp.Size : dp.db[i].open <= 1
    /\ \A w \in Workers :
          dp.w[w].pc \in {"Begin", "Save"} =>
             /\ dp.db[dp.w[w].item].open = 1
             /\ dp.db[dp.w[w].item].by = w
             /\ dp.db[dp.w[w].item].v = dp.w[w].v
    /\ \A w \in Workers :
          dp.w[w].pc = "Save" => dp.w[w].tx = w /\ dp.w[w].sv = dp.w[w].v

\* Two downloads with different versions have saved, each on its own
\* downloader, one of which another download has used before
C40_Witness ==
    \E a, b, c \in Workers :
        /\ dp.w[a].pc = "Save" /\ dp.w[b].pc = "Save"
        /\ dp.w[a].item # dp.w[b].item
        /\ dp.w[a].v # dp.w[b].v
        /\ dp.w[c].ran /\ dp.w[c].pc = "check"
        /\ dp.db[dp.w[a].item].open = 1

====
